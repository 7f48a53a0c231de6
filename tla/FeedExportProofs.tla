-------------------------- MODULE FeedExportProofs --------------------------
(***************************************************************************)
(* Theorems about FeedExport, for all feeds, items, classes, layouts,      *)
(* batch sizes, limits of uploads and failures.                            *)
(*                                                                         *)
(* FeedInv follows a batch from the item that opens it to the signal that  *)
(* tells its end: ClosesAreKept ties what the slot says of itself to the   *)
(* tasks of _close_slot, BatchesInOrder says which batches have such       *)
(* tasks, ItemsArePlaced and StoredHaveTheirItems where the items are.     *)
(*                                                                         *)
(* WholeInv is about the files: FilesFit ties what is written of a batch   *)
(* to the document of its items, SizesFit says how many it has.            *)
(***************************************************************************)
EXTENDS FeedExport, SequenceLemmas, FiniteSetTheorems, SequenceTheorems, TLAPS

-----------------------------------------------------------------------------
(* The types *)

Fields == {Own(i) : i \in Items} \cup {FieldsOf(f, i) : f \in FeedNames, i \in Items}
Rows == {<<>>} \cup {Headers(columns).row : columns \in Fields}
            \cup {SerializedFields(i, fields, empty) :
                      i \in Items, fields \in Fields, empty \in BOOLEAN}
MarkNames == {"item", "headers", "[", "]", "<items>", "</items>", Separator}
Marks == [mark : MarkNames, item : Items \cup {NoItem}, row : Rows]

SlotRecords == [
    items : Seq(Items), file : Seq(Marks), held : Seq(Marks), exporting : BOOLEAN,
    failed : BOOLEAN, closed : BOOLEAN, storing : BOOLEAN, stored : Seq(Marks),
    success : BOOLEAN, closes : Nat, told : Nat]

Busy == {"exporting", "rotating", "blocked"}

FeedTypeOK ==
    /\ feeds \in Layouts
    /\ phase \in {"created", "disabled", "open", "closing", "closed"}
    /\ slots \in [FeedNames -> Nat \ {0}]
    /\ slot \in [Batches -> SlotRecords]
    /\ pending \subseteq Batches \X (Nat \ {0})
    /\ brought \subseteq Items \X Batches
    /\ lock \in Items \cup {NoItem}
    /\ task \in [Items -> Busy \cup {"new", "refused", "waiting", "done", "raised", "cut"}]
    /\ turn \in 1..(Len(Feeds) + 1)
    /\ fresh \subseteq FeedNames /\ unrotated \subseteq FeedNames

-----------------------------------------------------------------------------
(* The invariant *)

\* The holder of _slot_lock is the one task in the loop over the feeds, and a batch that turns over
\* is full.
LoopFits ==
    /\ \A i \in Items : task[i] \in Busy <=> lock = i
    /\ \A i \in Items : task[i] = "waiting" => phase = "open"
    /\ lock # NoItem => phase = "open" /\ fresh \subseteq {Feeds[k] : k \in 1..(turn - 1)}
    /\ \A i \in Items : task[i] \in {"rotating", "blocked"} =>
          turn <= Len(Feeds) /\ i \in Accepts[Feed] /\ Full(slot[Here])

\* The tasks of _close_slot that are left are few, and of those that were made.
PendingFits ==
    /\ IsFiniteSet(pending) /\ Cardinality(pending) <= StorageConcurrency
    /\ \A t \in pending : t[2] <= slot[t[1]].closes

\* A slot is closed by the first task made for it, which is there until it has told the end.
ClosesAreKept ==
    \A b \in Batches : LET s == slot[b] IN
        /\ <<b, 1>> \in pending => s.closed = s.storing
        /\ <<b, 1>> \notin pending => ~s.storing /\ (s.closes > 0 => s.closed)
        /\ s.closed => s.closes > 0
        /\ s.told <= 1
        /\ s.told = 1 => s.closed /\ ~s.storing /\ (s.success \/ s.failed)
        /\ s.success => s.told = 1
        /\ s.closed /\ ~s.storing /\ (s.items # <<>> \/ s.failed) => s.told = 1

\* A feed goes to a next batch once per item at most.
SlotsAreCounted ==
    \A f \in FeedNames : slots[f] <= Cardinality({i \in Items : task[i] = "done"}) + 1

\* The batches behind the open one are closed or about to be, and those ahead of it untouched.
BehindAndAhead ==
    \A b \in Batches :
        /\ b[2] < slots[b[1]] => slot[b].closes > 0
        /\ b[2] > slots[b[1]] => slot[b].items = <<>> /\ ~slot[b].failed /\ slot[b].closes = 0

\* The open batches behind the loop that makes the next ones, or that closes them all.
GivenToTasks ==
    /\ lock # NoItem => \A f \in fresh : slot[<<f, slots[f]>>].closes > 0
    /\ phase \in {"closing", "closed"} =>
          \A k \in 1..(turn - 1) : slot[<<Feeds[k], slots[Feeds[k]]>>].closes > 0

BatchesInOrder ==
    /\ BehindAndAhead /\ GivenToTasks
    /\ phase = "closed" => turn > Len(Feeds) /\ pending = {}

\* Until the crawl ends only a full batch is closed.
ClosedAreFull ==
    phase \notin {"closing", "closed"} => \A b \in Batches : slot[b].closes > 0 => slot[b].items # <<>>

\* Between two items no open batch has been given to a task, but for feeds that got no next one.
OpenAreOpen ==
    phase \notin {"closing", "closed"} => \A f \in FeedNames \ unrotated :
        lock = NoItem \/ f \notin fresh => slot[<<f, slots[f]>>].closes = 0

\* What went past a feed is in the batch that was open then, or that batch has failed.
Placed(i, f) ==
    \E b \in Batches :
        /\ b[1] = f /\ <<i, b>> \in brought
        /\ i \in Range(slot[b].items) \/ slot[b].failed

ItemsArePlaced ==
    \A i \in Items : \A f \in FeedNames :
        /\ i \in Accepts[f]
        /\ \/ task[i] = "done"
           \/ task[i] \in Busy /\ \E k \in 1..(turn - 1) : Feeds[k] = f
           \/ task[i] \in {"rotating", "blocked"} /\ Feeds[turn] = f
        => Placed(i, f)

Has(marks, i) == \E n \in DOMAIN marks : marks[n].mark = "item" /\ marks[n].item = i

\* An item of a batch is in its file, or held by the plugins.
FilesHaveTheirItems ==
    \A b \in Batches : \A i \in Range(slot[b].items) : Has(slot[b].file, i) \/ Has(slot[b].held, i)

\* What a storage was given has every item of the batch.
StoredHaveTheirItems ==
    \A b \in Batches :
        b[1] \notin unrotated /\ slot[b].closed /\ (slot[b].storing \/ slot[b].success) =>
            \A i \in Range(slot[b].items) : Has(slot[b].stored, i)

FeedInv ==
    /\ FeedTypeOK /\ LoopFits /\ PendingFits /\ ClosesAreKept /\ SlotsAreCounted
    /\ BatchesInOrder /\ ClosedAreFull /\ OpenAreOpen
    /\ ItemsArePlaced /\ FilesHaveTheirItems /\ StoredHaveTheirItems

-----------------------------------------------------------------------------
(* What the exporters do to a slot *)

OnFile(s, i) == Has(s.file, i) \/ Has(s.held, i)

SameState(s, e) ==
    /\ e.failed = s.failed /\ e.closed = s.closed /\ e.storing = s.storing
    /\ e.stored = s.stored /\ e.success = s.success
    /\ e.closes = s.closes /\ e.told = s.told

\* Nothing that is written takes the place of something else.
LEMMA HasConcat ==
    ASSUME NEW a \in Seq(Marks), NEW b \in Seq(Marks), NEW i
    PROVE  /\ Has(a, i) => Has(a \o b, i)
           /\ Has(b, i) => Has(a \o b, i)
<1>1. ASSUME NEW n \in DOMAIN a PROVE n \in DOMAIN (a \o b) /\ (a \o b)[n] = a[n]
  OBVIOUS
<1>2. ASSUME NEW n \in DOMAIN b
      PROVE  Len(a) + n \in DOMAIN (a \o b) /\ (a \o b)[Len(a) + n] = b[n]
  OBVIOUS
<1> QED BY <1>1, <1>2 DEF Has

\* The marks of a format at the start and the end of a file.
LEMMA FormatMarks ==
    ASSUME NEW format
    PROVE  Opening(format) \in Seq(Marks) /\ Closing(format) \in Seq(Marks)
<1>1. \A mark \in MarkNames : Mark(mark) \in Marks
  BY DEF Mark, Marks, Rows, NoItem
<1>2. \A m \in Marks : <<m>> \in Seq(Marks)
  OBVIOUS
<1>3. <<>> \in Seq(Marks)
  OBVIOUS
<1>4. \A m \in {Mark("["), Mark("]"), Mark("<items>"), Mark("</items>")} : <<m>> \in Seq(Marks)
  BY <1>1, <1>2 DEF MarkNames
<1>5. Opening(format) \in {<<Mark("[")>>, <<Mark("<items>")>>, <<>>}
  BY DEF Opening
<1>6. Closing(format) \in {<<Mark("]")>>, <<Mark("</items>")>>, <<>>}
  BY DEF Closing
<1> QED BY <1>3, <1>4, <1>5, <1>6

\* An item that is exported is written.
LEMMA EntryHasItem ==
    ASSUME NEW f \in FeedNames, NEW format, NEW i \in Items, NEW items \in Seq(Items)
    PROVE  Entry(f, format, i, items) \in Seq(Marks) /\ Has(Entry(f, format, i, items), i)
<1>1. ASSUME NEW fields \in Fields, NEW empty \in BOOLEAN
      PROVE  /\ Written(i, fields, empty) \in Marks
             /\ Written(i, fields, empty).mark = "item" /\ Written(i, fields, empty).item = i
  <2>1. SerializedFields(i, fields, empty) \in Rows
    BY DEF Rows
  <2> QED BY <2>1 DEF Written, Marks, MarkNames
<1>2. ASSUME NEW columns \in Fields PROVE Headers(columns) \in Marks
  <2>1. Headers(columns).row \in Rows
    BY DEF Rows
  <2>2. Headers(columns) = [mark |-> "headers", item |-> NoItem, row |-> Headers(columns).row]
    BY DEF Headers, NoItem
  <2>3. \A row \in Rows : [mark |-> "headers", item |-> NoItem, row |-> row] \in Marks
    BY DEF Marks, MarkNames
  <2> QED BY <2>1, <2>2, <2>3
<1>3. CASE format = "csv"
  <2> DEFINE columns == Columns(f, IF items = <<>> THEN i ELSE items[1])
             before == IF items = <<>> THEN <<Headers(columns)>> ELSE <<>>
             w == Written(i, columns, TRUE)
  <2>1. (IF items = <<>> THEN i ELSE items[1]) \in Items
    OBVIOUS
  <2>2. columns \in Fields
    BY <2>1 DEF Columns, Fields
  <2>3. Entry(f, format, i, items) = before \o <<w>>
    BY <1>3 DEF Entry
  <2> HIDE DEF columns
  <2>4. before \in Seq(Marks)
    <3>1. \A m \in Marks : <<m>> \in Seq(Marks)
      OBVIOUS
    <3> QED BY <3>1, <2>2, <1>2
  <2>5. w \in Marks /\ w.mark = "item" /\ w.item = i
    BY <1>1, <2>2
  <2> HIDE DEF before, w
  <2>6. <<w>> \in Seq(Marks) /\ Has(<<w>>, i)
    BY <2>5 DEF Has
  <2>7. before \o <<w>> \in Seq(Marks)
    BY <2>4, <2>6
  <2> QED BY <2>3, <2>4, <2>6, <2>7, HasConcat
<1>4. CASE format # "csv"
  <2> DEFINE w == Written(i, FieldsOf(f, i), FALSE)
             comma == Mark(Separator)
  <2>1. w \in Marks /\ w.mark = "item" /\ w.item = i
    <3>1. FieldsOf(f, i) \in Fields
      BY DEF Fields
    <3> QED BY <3>1, <1>1
  <2>2. Entry(f, format, i, items) \in {<<comma, w>>, <<w>>}
    BY <1>4 DEF Entry
  <2>3. comma \in Marks
    <3>1. \A mark \in MarkNames : Mark(mark) \in Marks
      BY DEF Mark, Marks, Rows, NoItem
    <3> QED BY <3>1 DEF MarkNames
  <2> HIDE DEF w, comma
  <2>4. <<w>> \in Seq(Marks) /\ Has(<<w>>, i)
    BY <2>1 DEF Has
  <2>5. <<comma, w>> \in Seq(Marks)
    BY <2>1, <2>3
  <2>6. 2 \in DOMAIN <<comma, w>> /\ <<comma, w>>[2] = w
    OBVIOUS
  <2>7. Has(<<comma, w>>, i)
    BY <2>1, <2>6 DEF Has
  <2> QED BY <2>2, <2>4, <2>5, <2>7
<1> QED BY <1>3, <1>4

LEMMA WriteKeeps ==
    ASSUME NEW f, NEW s \in SlotRecords, NEW marks \in Seq(Marks)
    PROVE  LET w == Write(f, s, marks) IN
           /\ w \in SlotRecords /\ SameState(s, w)
           /\ w.items = s.items /\ w.exporting = s.exporting
           /\ \A i : OnFile(s, i) \/ Has(marks, i) => OnFile(w, i)
<1> DEFINE w == Write(f, s, marks)
<1>1. w \in SlotRecords /\ SameState(s, w) /\ w.items = s.items /\ w.exporting = s.exporting
  <2>1. s.file \o marks \in Seq(Marks) /\ s.held \o marks \in Seq(Marks)
    BY DEF SlotRecords
  <2>2. w \in {[s EXCEPT !.held = s.held \o marks], [s EXCEPT !.file = s.file \o marks]}
    BY DEF Write
  <2> HIDE DEF w
  <2>3. w \in SlotRecords
    BY <2>1, <2>2 DEF SlotRecords
  <2>4. SameState(s, w) /\ w.items = s.items /\ w.exporting = s.exporting
    BY <2>2 DEF SlotRecords, SameState
  <2> QED BY <2>3, <2>4
<1>2. \/ w.held = s.held \o marks /\ w.file = s.file
      \/ w.file = s.file \o marks /\ w.held = s.held
  BY DEF Write, SlotRecords
<1>3. s.file \in Seq(Marks) /\ s.held \in Seq(Marks)
  BY DEF SlotRecords
<1>4. \A i : OnFile(s, i) \/ Has(marks, i) => OnFile(w, i)
  BY <1>2, <1>3, HasConcat DEF OnFile
<1> QED BY <1>1, <1>4

LEMMA StartKeeps ==
    ASSUME NEW f, NEW format, NEW s \in SlotRecords
    PROVE  LET e == StartExporting(f, format, s) IN
           /\ e \in SlotRecords /\ SameState(s, e)
           /\ e.items = s.items /\ e.exporting
           /\ \A i : OnFile(s, i) => OnFile(e, i)
<1> DEFINE w == Write(f, s, Opening(format))
           e == StartExporting(f, format, s)
<1>1. CASE s.exporting
  BY <1>1 DEF StartExporting, SameState
<1>2. CASE ~s.exporting
  <2>1. w \in SlotRecords /\ SameState(s, w) /\ w.items = s.items
        /\ \A i : OnFile(s, i) => OnFile(w, i)
    BY FormatMarks, WriteKeeps
  <2>2. e = [w EXCEPT !.exporting = TRUE]
    BY <1>2 DEF StartExporting
  <2> HIDE DEF w, e
  <2>3. e \in SlotRecords
    BY <2>1, <2>2 DEF SlotRecords
  <2>4. SameState(w, e) /\ e.items = w.items /\ e.exporting /\ e.file = w.file /\ e.held = w.held
    BY <2>1, <2>2 DEF SlotRecords, SameState
  <2>5. SameState(s, e)
    BY <2>1, <2>4 DEF SameState
  <2> QED BY <2>1, <2>3, <2>4, <2>5 DEF OnFile, e
<1> QED BY <1>1, <1>2

\* export_item
LEMMA ExportKeeps ==
    ASSUME NEW f \in FeedNames, NEW format, NEW s \in SlotRecords, NEW i \in Items
    PROVE  LET e == ExportItem(f, format, s, i) IN
           /\ e \in SlotRecords /\ SameState(s, e)
           /\ e.items = Append(s.items, i)
           /\ \A j : OnFile(s, j) \/ j = i => OnFile(e, j)
<1> DEFINE u == StartExporting(f, format, s)
           entry == Entry(f, format, i, s.items)
           w == Write(f, u, entry)
           e == ExportItem(f, format, s, i)
<1>1. u \in SlotRecords /\ SameState(s, u) /\ u.items = s.items
      /\ \A j : OnFile(s, j) => OnFile(u, j)
  BY StartKeeps
<1>2. entry \in Seq(Marks) /\ Has(entry, i)
  <2>1. s.items \in Seq(Items)
    BY DEF SlotRecords
  <2> QED BY <2>1, EntryHasItem
<1>3. e = [w EXCEPT !.items = Append(@, i)]
  BY DEF ExportItem
<1> HIDE DEF u, entry
<1>4. w \in SlotRecords /\ SameState(u, w) /\ w.items = u.items
      /\ \A j : OnFile(u, j) \/ Has(entry, j) => OnFile(w, j)
  BY <1>1, <1>2, WriteKeeps
<1> HIDE DEF w, e
<1>5. e \in SlotRecords /\ SameState(w, e) /\ e.items = Append(w.items, i)
      /\ \A j : OnFile(w, j) => OnFile(e, j)
  <2>1. Append(w.items, i) \in Seq(Items)
    BY <1>4 DEF SlotRecords
  <2>2. e \in SlotRecords
    BY <1>3, <1>4, <2>1 DEF SlotRecords
  <2>3. SameState(w, e) /\ e.items = Append(w.items, i) /\ e.file = w.file /\ e.held = w.held
    BY <1>3, <1>4 DEF SlotRecords, SameState
  <2> QED BY <2>2, <2>3 DEF OnFile
<1>6. SameState(s, e)
  BY <1>1, <1>4, <1>5 DEF SameState
<1>7. e.items = Append(s.items, i)
  BY <1>1, <1>4, <1>5
<1>8. \A j : OnFile(s, j) \/ j = i => OnFile(e, j)
  BY <1>1, <1>2, <1>4, <1>5
<1> QED BY <1>5, <1>6, <1>7, <1>8 DEF e

\* finish_exporting and storage_file: the file has all that was written.
LEMMA FinishKeeps ==
    ASSUME NEW f, NEW format, NEW s \in SlotRecords
    PROVE  LET e == StorageFile(FinishExporting(f, format, s)) IN
           /\ e \in SlotRecords /\ SameState(s, e)
           /\ e.items = s.items
           /\ \A i : OnFile(s, i) => Has(e.file, i)
<1> DEFINE u == StartExporting(f, format, s)
           w == Write(f, u, Closing(format))
           v == FinishExporting(f, format, s)
           e == StorageFile(v)
<1>1. u \in SlotRecords /\ SameState(s, u) /\ u.items = s.items
      /\ \A j : OnFile(s, j) => OnFile(u, j)
  BY StartKeeps
<1>2. v = [w EXCEPT !.exporting = FALSE]
  BY DEF FinishExporting
<1>3. Closing(format) \in Seq(Marks)
  BY FormatMarks
<1>4. e = [v EXCEPT !.file = @ \o v.held, !.held = <<>>]
  BY DEF StorageFile
<1> HIDE DEF u
<1>5. w \in SlotRecords /\ SameState(u, w) /\ w.items = u.items
      /\ \A j : OnFile(u, j) => OnFile(w, j)
  BY <1>1, <1>3, WriteKeeps
<1> HIDE DEF w, v, e
<1>6. v \in SlotRecords /\ SameState(w, v) /\ v.items = w.items
      /\ \A j : OnFile(w, j) => OnFile(v, j)
  BY <1>2, <1>5 DEF SlotRecords, SameState, OnFile
<1>7. e \in SlotRecords /\ SameState(v, e) /\ e.items = v.items /\ e.file = v.file \o v.held
  <2>1. v.file \o v.held \in Seq(Marks) /\ <<>> \in Seq(Marks)
    BY <1>6 DEF SlotRecords
  <2>2. e \in SlotRecords
    BY <1>4, <1>6, <2>1 DEF SlotRecords
  <2> QED BY <1>4, <1>6, <2>2 DEF SlotRecords, SameState
<1>8. ASSUME NEW j, OnFile(v, j) PROVE Has(e.file, j)
  <2>1. v.file \in Seq(Marks) /\ v.held \in Seq(Marks)
    BY <1>6 DEF SlotRecords
  <2> QED BY <2>1, <1>7, <1>8, HasConcat DEF OnFile
<1>9. SameState(s, e)
  BY <1>1, <1>5, <1>6, <1>7 DEF SameState
<1>10. e.items = s.items
  BY <1>1, <1>5, <1>6, <1>7
<1>11. \A i : OnFile(s, i) => Has(e.file, i)
  BY <1>1, <1>5, <1>6, <1>8
<1> QED BY <1>7, <1>9, <1>10, <1>11 DEF e, v

-----------------------------------------------------------------------------
(* What the steps do to the slots *)

\* The actions that leave every slot and every task of _close_slot alone.
QuietStep ==
    \/ Disable \/ OpenSpider \/ Shutdown \/ Gather
    \/ \E i \in Items : Refuse(i) \/ Scrape(i) \/ Lock(i) \/ Wait(i) \/ Exported(i)

\* The actions that make a task of _close_slot.
ScheduleStep == CloseNext \/ \E i \in Items : Rotate(i) \/ RotateFails(i)

\* One turn of the loop over the feeds, for item i.
TurnStep(i) == Skip(i) \/ Export(i) \/ ExportFails(i)

\* A step of task t of _close_slot.
CloserStep(t) ==
    CloseAgain(t) \/ CloseFailed(t) \/ CloseEmpty(t) \/ BeginStore(t) \/ Stored(t) \/ StoreFails(t)

LEMMA AnyStep ==
    ASSUME Next
    PROVE  \/ QuietStep \/ ScheduleStep
           \/ \E i \in Items : TurnStep(i)
           \/ \E t \in pending : CloserStep(t)
<1>1. Closers => \E t \in pending : CloserStep(t)
  <2>1. \A t : CloserStep(t) => t \in pending
    BY DEF CloserStep, CloseAgain, CloseFailed, CloseEmpty, BeginStore, Stored, StoreFails, Storing
  <2>2. Closers => \E t : CloserStep(t)
    BY DEF Closers, CloserStep
  <2> QED BY <2>1, <2>2
<1>2. Exporter => QuietStep \/ ScheduleStep \/ \E i \in Items : TurnStep(i)
  BY DEF Exporter, QuietStep, ScheduleStep, TurnStep
<1> QED BY <1>1, <1>2 DEF Next, QuietStep, ScheduleStep

LEMMA QuietKeeps == QuietStep => UNCHANGED <<feeds, slot, pending, brought, unrotated>>
BY DEF QuietStep, Disable, OpenSpider, Shutdown, Gather, Refuse, Scrape, Lock, Wait, Exported

\* Only the loop over the feeds brings items to them.
LEMMA OthersBringNothing ==
    ASSUME ScheduleStep \/ \E t \in pending : CloserStep(t)
    PROVE  brought' = brought
<1>1. ASSUME NEW t \in pending, CloserStep(t) PROVE brought' = brought
  BY <1>1 DEF CloserStep, CloseAgain, CloseFailed, CloseEmpty, BeginStore, Stored, StoreFails, Ends
<1>2. ScheduleStep => brought' = brought
  BY DEF ScheduleStep, CloseNext, Rotate, RotateFails
<1> QED BY <1>1, <1>2

LEMMA TurnBrings ==
    ASSUME NEW i \in Items, TurnStep(i)
    PROVE  brought' = IF i \in Accepts[Feed] THEN brought \cup {<<i, Here>>} ELSE brought
BY DEF TurnStep, Skip, Export, ExportFails, Turn

LEMMA DoneIsFinite ==
    ASSUME FeedTypeOK
    PROVE  LET done == {i \in Items : task[i] = "done"} IN
           IsFiniteSet(done) /\ Cardinality(done) \in Nat /\ Cardinality(done) <= Cardinality(Items)
BY FeedAssumption, FS_Subset, FS_CardinalityType

LEMMA OpenIsABatch ==
    ASSUME FeedTypeOK, SlotsAreCounted
    PROVE  /\ \A f \in FeedNames : <<f, slots[f]>> \in Batches
           /\ turn <= Len(Feeds) => Feed \in FeedNames /\ Here \in Batches
<1>1. Cardinality(Items) \in Nat
  BY FeedAssumption, FS_CardinalityType
<1>2. ASSUME NEW f \in FeedNames PROVE slots[f] \in BatchIds
  BY <1>1, DoneIsFinite DEF FeedTypeOK, SlotsAreCounted, BatchIds
<1>3. ASSUME turn <= Len(Feeds) PROVE Feed \in FeedNames
  BY <1>3, FeedAssumption DEF FeedTypeOK, Feed, FeedNames
<1> QED BY <1>2, <1>3 DEF Batches, Here

\* What changes when slot b becomes s.
LEMMA SlotBecomes ==
    ASSUME FeedTypeOK, NEW b \in Batches, NEW s \in SlotRecords, slot' = [slot EXCEPT ![b] = s]
    PROVE  /\ slot' \in [Batches -> SlotRecords]
           /\ \A c \in Batches : slot'[c] = IF c = b THEN s ELSE slot[c]
BY DEF FeedTypeOK

LEMMA CloseOnceMore ==
    ASSUME NEW s \in SlotRecords
    PROVE  LET e == [s EXCEPT !.closes = @ + 1] IN
           /\ e \in SlotRecords
           /\ e.items = s.items /\ e.file = s.file /\ e.held = s.held /\ e.failed = s.failed
           /\ e.closed = s.closed /\ e.storing = s.storing /\ e.stored = s.stored
           /\ e.success = s.success /\ e.told = s.told /\ e.closes = s.closes + 1
<1>1. s.closes + 1 \in Nat
  BY DEF SlotRecords
<1>2. [s EXCEPT !.closes = s.closes + 1] \in SlotRecords
  BY <1>1 DEF SlotRecords
<1> QED BY <1>2 DEF SlotRecords

\* The slots that the steps of a closer make of slot s: it is told, or it is being stored.
LEMMA ToldIs ==
    ASSUME NEW s \in SlotRecords
    PROVE  LET e == Told(s) IN
           /\ e \in SlotRecords
           /\ e.items = s.items /\ e.file = s.file /\ e.held = s.held /\ e.failed = s.failed
           /\ e.stored = s.stored /\ e.success = s.success /\ e.closes = s.closes
           /\ e.closed /\ ~e.storing /\ e.told = s.told + 1
<1>1. s.told + 1 \in Nat
  BY DEF SlotRecords
<1>2. [s EXCEPT !.told = s.told + 1, !.closed = TRUE, !.storing = FALSE] \in SlotRecords
  BY <1>1 DEF SlotRecords
<1> QED BY <1>2 DEF SlotRecords, Told

LEMMA ClosedIs ==
    ASSUME NEW s \in SlotRecords
    PROVE  LET e == [s EXCEPT !.closed = TRUE] IN
           /\ e \in SlotRecords
           /\ e.items = s.items /\ e.file = s.file /\ e.held = s.held /\ e.failed = s.failed
           /\ e.stored = s.stored /\ e.success = s.success /\ e.closes = s.closes
           /\ e.closed /\ e.storing = s.storing /\ e.told = s.told
BY DEF SlotRecords

LEMMA StoringIs ==
    ASSUME NEW s \in SlotRecords
    PROVE  LET e == [s EXCEPT !.closed = TRUE, !.storing = TRUE, !.stored = s.file] IN
           /\ e \in SlotRecords
           /\ e.items = s.items /\ e.file = s.file /\ e.held = s.held /\ e.failed = s.failed
           /\ e.stored = s.file /\ e.success = s.success /\ e.closes = s.closes
           /\ e.closed /\ e.storing /\ e.told = s.told
BY DEF SlotRecords

LEMMA SuccessIs ==
    ASSUME NEW s \in SlotRecords
    PROVE  LET e == [s EXCEPT !.success = TRUE] IN
           /\ e \in SlotRecords
           /\ e.items = s.items /\ e.file = s.file /\ e.held = s.held /\ e.failed = s.failed
           /\ e.stored = s.stored /\ e.success /\ e.closes = s.closes
           /\ e.closed = s.closed /\ e.storing = s.storing /\ e.told = s.told
BY DEF SlotRecords

LEMMA FailedIs ==
    ASSUME NEW s \in SlotRecords
    PROVE  LET e == [s EXCEPT !.failed = TRUE] IN
           /\ e \in SlotRecords
           /\ e.items = s.items /\ e.file = s.file /\ e.held = s.held /\ e.failed
           /\ e.stored = s.stored /\ e.success = s.success /\ e.closes = s.closes
           /\ e.closed = s.closed /\ e.storing = s.storing /\ e.told = s.told
BY DEF SlotRecords

LEMMA ScheduleDoes ==
    ASSUME FeedTypeOK, SlotsAreCounted, LoopFits, ScheduleStep
    PROVE  /\ turn <= Len(Feeds) /\ HasRoom /\ Here \in Batches /\ Feed \in FeedNames
           /\ UNCHANGED <<feeds, slots>>
           /\ slot' \in [Batches -> SlotRecords]
           /\ pending' = pending \cup {<<Here, slot[Here].closes + 1>>}
           /\ \A b \in Batches :
                 /\ slot'[b].items = slot[b].items /\ slot'[b].file = slot[b].file
                 /\ slot'[b].held = slot[b].held /\ slot'[b].failed = slot[b].failed
                 /\ slot'[b].closed = slot[b].closed /\ slot'[b].storing = slot[b].storing
                 /\ slot'[b].stored = slot[b].stored /\ slot'[b].success = slot[b].success
                 /\ slot'[b].told = slot[b].told
                 /\ slot'[b].closes = IF b = Here THEN slot[b].closes + 1 ELSE slot[b].closes
<1>1. turn <= Len(Feeds) /\ HasRoom /\ ScheduleClose /\ UNCHANGED <<feeds, slots>>
  BY DEF ScheduleStep, CloseNext, Rotate, RotateFails, LoopFits
<1>2. Here \in Batches /\ Feed \in FeedNames
  BY <1>1, OpenIsABatch
<1>3. slot[Here] \in SlotRecords /\ slot[Here].closes \in Nat
  BY <1>2 DEF FeedTypeOK, SlotRecords
<1> DEFINE s == [slot[Here] EXCEPT !.closes = @ + 1]
<1>4. /\ s \in SlotRecords
      /\ s.items = slot[Here].items /\ s.file = slot[Here].file
      /\ s.held = slot[Here].held /\ s.failed = slot[Here].failed
      /\ s.closed = slot[Here].closed /\ s.storing = slot[Here].storing
      /\ s.stored = slot[Here].stored /\ s.success = slot[Here].success
      /\ s.told = slot[Here].told /\ s.closes = slot[Here].closes + 1
  BY <1>3, CloseOnceMore
<1>5. slot' = [slot EXCEPT ![Here] = s]
  BY <1>1 DEF ScheduleClose
<1> HIDE DEF s
<1>6. slot' \in [Batches -> SlotRecords]
      /\ \A b \in Batches : slot'[b] = IF b = Here THEN s ELSE slot[b]
  BY <1>2, <1>4, <1>5, SlotBecomes
<1>7. pending' = pending \cup {<<Here, slot[Here].closes + 1>>}
  BY <1>1 DEF ScheduleClose
<1> QED BY <1>1, <1>2, <1>4, <1>6, <1>7

LEMMA TurnDoes ==
    ASSUME FeedTypeOK, SlotsAreCounted, LoopFits, NEW i \in Items, TurnStep(i)
    PROVE  /\ lock = i /\ task[i] = "exporting" /\ turn <= Len(Feeds)
           /\ Here \in Batches /\ Feed \in FeedNames
           /\ UNCHANGED <<feeds, phase, slots, pending, lock, fresh, unrotated>>
           /\ slot' \in [Batches -> SlotRecords]
           /\ \A b \in Batches : b # Here => slot'[b] = slot[b]
           /\ LET s == slot[Here]
                  e == slot'[Here] IN
              /\ e.closed = s.closed /\ e.storing = s.storing /\ e.stored = s.stored
              /\ e.success = s.success /\ e.closes = s.closes /\ e.told = s.told
              /\ s.failed => e.failed
              /\ e.items = s.items \/ (e.items = Append(s.items, i) /\ (s.closed => s.storing))
              /\ \A j : OnFile(s, j) \/ (e.items # s.items /\ j = i) => OnFile(e, j)
              /\ i \in Accepts[Feed] => e.failed \/ e.items = Append(s.items, i)
              /\ \/ /\ task' = [task EXCEPT ![i] = "rotating"] /\ turn' = turn
                    /\ i \in Accepts[Feed] /\ Full(e)
                 \/ turn' = turn + 1 /\ task' = task
<1>1. lock = i /\ task[i] = "exporting" /\ turn <= Len(Feeds)
  BY DEF TurnStep, Skip, Export, ExportFails, Exporting
<1>2. Here \in Batches /\ Feed \in FeedNames
  BY <1>1, OpenIsABatch
<1> DEFINE s == slot[Here]
<1>3. s \in SlotRecords
  BY <1>2 DEF FeedTypeOK
<1> SUFFICES ASSUME NEW e \in SlotRecords, Turn(i, e),
                    e.closed = s.closed /\ e.storing = s.storing /\ e.stored = s.stored,
                    e.success = s.success /\ e.closes = s.closes /\ e.told = s.told,
                    s.failed => e.failed,
                    e.items = s.items \/ (e.items = Append(s.items, i) /\ (s.closed => s.storing)),
                    \A j : OnFile(s, j) \/ (e.items # s.items /\ j = i) => OnFile(e, j),
                    i \in Accepts[Feed] => e.failed \/ e.items = Append(s.items, i)
             PROVE  /\ UNCHANGED <<feeds, phase, slots, pending, lock, fresh, unrotated>>
                    /\ slot' \in [Batches -> SlotRecords]
                    /\ \A b \in Batches : slot'[b] = IF b = Here THEN e ELSE slot[b]
                    /\ \/ /\ task' = [task EXCEPT ![i] = "rotating"] /\ turn' = turn
                          /\ i \in Accepts[Feed] /\ Full(e)
                       \/ turn' = turn + 1 /\ task' = task
  <2> DEFINE Becomes(e) ==
        /\ e \in SlotRecords /\ Turn(i, e)
        /\ e.closed = s.closed /\ e.storing = s.storing /\ e.stored = s.stored
        /\ e.success = s.success /\ e.closes = s.closes /\ e.told = s.told
        /\ s.failed => e.failed
        /\ e.items = s.items \/ (e.items = Append(s.items, i) /\ (s.closed => s.storing))
        /\ \A j : OnFile(s, j) \/ (e.items # s.items /\ j = i) => OnFile(e, j)
        /\ i \in Accepts[Feed] => e.failed \/ e.items = Append(s.items, i)
  <2>1. CASE Skip(i)
    <3>1. Turn(i, s) /\ (i \notin Accepts[Feed] \/ s.failed)
      BY <2>1 DEF Skip
    <3>2. Becomes(s)
      <4>1. \A j : OnFile(s, j) \/ (s.items # s.items /\ j = i) => OnFile(s, j)
        BY Zenon
      <4>2. i \in Accepts[Feed] => s.failed \/ s.items = Append(s.items, i)
        BY <3>1
      <4> HIDE DEF s
      <4> QED BY <3>1, <1>3, <4>1, <4>2
    <3> QED BY <3>2, <1>1, <1>2
  <2>2. CASE Export(i)
    <3> DEFINE e == ExportItem(Feed, feeds[Feed].format, s, i)
    <3>1. Turn(i, e) /\ (s.closed => s.storing)
      BY <2>2 DEF Export, Writable
    <3>2. /\ e \in SlotRecords /\ SameState(s, e)
          /\ e.items = Append(s.items, i)
          /\ \A j : OnFile(s, j) \/ j = i => OnFile(e, j)
      BY <1>2, <1>3, ExportKeeps
    <3> HIDE DEF e
    <3>3. Becomes(e)
      BY <3>1, <3>2 DEF SameState
    <3> QED BY <3>3, <1>1, <1>2
  <2>3. CASE ExportFails(i)
    <3> DEFINE e == [s EXCEPT !.failed = TRUE]
    <3>1. Turn(i, e)
      BY <2>3 DEF ExportFails
    <3>3. /\ e \in SlotRecords /\ e.failed
          /\ e.closed = s.closed /\ e.storing = s.storing /\ e.stored = s.stored
          /\ e.success = s.success /\ e.closes = s.closes /\ e.told = s.told
          /\ e.items = s.items /\ e.file = s.file /\ e.held = s.held
      BY <1>3, FailedIs
    <3> HIDE DEF e
    <3>4. Becomes(e)
      <4>1. \A j : OnFile(s, j) \/ (e.items # s.items /\ j = i) => OnFile(e, j)
        BY <3>3 DEF OnFile
      <4> HIDE DEF s
      <4> QED BY <3>1, <3>3, <4>1
    <3> QED BY <3>4, <1>1, <1>2
  <2> QED BY <2>1, <2>2, <2>3 DEF TurnStep
<1>4. slot' = [slot EXCEPT ![Here] = e]
  BY DEF Turn
<1>5. slot' \in [Batches -> SlotRecords]
      /\ \A b \in Batches : slot'[b] = IF b = Here THEN e ELSE slot[b]
  BY <1>2, <1>4, SlotBecomes
<1> QED BY <1>5 DEF Turn

\* What a step of a closer makes of its slot, and whether its task ends.
CloserMakes(t, s, e) ==
    \/ t[2] > 1 /\ e = s /\ pending' = pending \ {t}
    \/ /\ t[2] = 1 /\ pending' = pending \ {t}
       /\ ~s.closed /\ s.failed
       /\ e.failed /\ e.success = s.success /\ e.closed /\ ~e.storing /\ e.told = s.told + 1
    \/ /\ t[2] = 1 /\ pending' = pending \ {t}
       /\ ~s.closed /\ ~s.failed /\ s.items = <<>>
       /\ ~e.failed /\ e.success = s.success /\ e.closed /\ e.storing = s.storing /\ e.told = s.told
    \/ /\ t[2] = 1 /\ pending' = pending
       /\ ~s.closed /\ ~s.failed
       /\ ~e.failed /\ e.success = s.success /\ e.closed /\ e.storing /\ e.told = s.told
       /\ \A i : OnFile(s, i) => Has(e.stored, i)
    \/ /\ t[2] = 1 /\ pending' = pending \ {t}
       /\ s.storing
       /\ e.closed /\ ~e.storing /\ e.told = s.told + 1 /\ e.stored = s.stored
       /\ \/ e.success /\ e.failed = s.failed
          \/ e.failed /\ e.success = s.success

LEMMA CloserDoes ==
    ASSUME FeedTypeOK, PendingFits, NEW t \in pending, CloserStep(t)
    PROVE  /\ t[1] \in Batches /\ t = <<t[1], t[2]>> /\ t[2] \in Nat \ {0}
           /\ slot[t[1]].closes > 0
           /\ UNCHANGED <<feeds, phase, slots, lock, task, turn, fresh, unrotated>>
           /\ slot' \in [Batches -> SlotRecords]
           /\ \A b \in Batches : b # t[1] => slot'[b] = slot[b]
           /\ LET s == slot[t[1]]
                  e == slot'[t[1]] IN
              /\ e.items = s.items /\ e.closes = s.closes /\ (s.failed => e.failed)
              /\ \A i : OnFile(s, i) => OnFile(e, i)
              /\ CloserMakes(t, s, e)
<1>1. t[1] \in Batches /\ t = <<t[1], t[2]>> /\ t[2] \in Nat \ {0}
  BY DEF FeedTypeOK
<1> DEFINE b == t[1]
           s == slot[b]
<1>2. s \in SlotRecords /\ s.closes > 0
  BY <1>1 DEF FeedTypeOK, PendingFits, SlotRecords
<1> SUFFICES ASSUME NEW e \in SlotRecords, slot' = [slot EXCEPT ![b] = e],
                    UNCHANGED <<feeds, phase, slots, lock, task, turn, fresh, unrotated>>,
                    e.items = s.items /\ e.closes = s.closes /\ (s.failed => e.failed),
                    \A i : OnFile(s, i) => OnFile(e, i),
                    CloserMakes(t, s, e)
             PROVE  /\ slot' \in [Batches -> SlotRecords]
                    /\ \A c \in Batches : slot'[c] = IF c = b THEN e ELSE slot[c]
  <2> DEFINE Makes(e) ==
        /\ e \in SlotRecords /\ slot' = [slot EXCEPT ![b] = e]
        /\ UNCHANGED <<feeds, phase, slots, lock, task, turn, fresh, unrotated>>
        /\ e.items = s.items /\ e.closes = s.closes /\ (s.failed => e.failed)
        /\ \A i : OnFile(s, i) => OnFile(e, i)
        /\ CloserMakes(t, s, e)
  <2>1. CASE CloseAgain(t)
    <3>1. /\ slot' = [slot EXCEPT ![b] = s] /\ t[2] > 1 /\ pending' = pending \ {t}
          /\ UNCHANGED <<feeds, phase, slots, lock, task, turn, fresh, unrotated>>
      BY <2>1 DEF CloseAgain, Ends
    <3>2. CloserMakes(t, s, s)
      BY <3>1 DEF CloserMakes
    <3> HIDE DEF s
    <3>3. Makes(s)
      BY <3>1, <3>2, <1>2
    <3> QED BY <3>3, <1>1, <1>2 DEF s
  <2>2. CASE CloseFailed(t)
    <3> DEFINE e == Told(s)
    <3>1. /\ slot' = [slot EXCEPT ![b] = e] /\ t[2] = 1 /\ pending' = pending \ {t}
          /\ ~s.closed /\ s.failed
          /\ UNCHANGED <<feeds, phase, slots, lock, task, turn, fresh, unrotated>>
      BY <2>2 DEF CloseFailed, Ends
    <3>2. /\ e \in SlotRecords
          /\ e.items = s.items /\ e.file = s.file /\ e.held = s.held /\ e.failed = s.failed
          /\ e.stored = s.stored /\ e.success = s.success /\ e.closes = s.closes
          /\ e.closed /\ ~e.storing /\ e.told = s.told + 1
      BY <1>2, ToldIs
    <3> HIDE DEF e, s
    <3>3. CloserMakes(t, s, e) /\ \A i : OnFile(s, i) => OnFile(e, i)
      BY <3>1, <3>2 DEF CloserMakes, OnFile
    <3>4. Makes(e)
      BY <3>1, <3>2, <3>3
    <3> QED BY <3>4, <1>1, <1>2 DEF s
  <2>3. CASE CloseEmpty(t)
    <3> DEFINE e == [s EXCEPT !.closed = TRUE]
    <3>1. /\ slot' = [slot EXCEPT ![b] = e] /\ t[2] = 1 /\ pending' = pending \ {t}
          /\ ~s.closed /\ ~s.failed /\ Len(s.items) = 0
          /\ UNCHANGED <<feeds, phase, slots, lock, task, turn, fresh, unrotated>>
      BY <2>3 DEF CloseEmpty, Ends, Worthless
    <3>2. /\ e \in SlotRecords
          /\ e.items = s.items /\ e.file = s.file /\ e.held = s.held /\ e.failed = s.failed
          /\ e.stored = s.stored /\ e.success = s.success /\ e.closes = s.closes
          /\ e.closed /\ e.storing = s.storing /\ e.told = s.told
      BY <1>2, ClosedIs
    <3>3. s.items = <<>>
      BY <3>1, <1>2 DEF SlotRecords
    <3> HIDE DEF e, s
    <3>4. CloserMakes(t, s, e) /\ \A i : OnFile(s, i) => OnFile(e, i)
      BY <3>1, <3>2, <3>3 DEF CloserMakes, OnFile
    <3>5. Makes(e)
      BY <3>1, <3>2, <3>4
    <3> QED BY <3>5, <1>1, <1>2 DEF s
  <2>4. CASE BeginStore(t)
    <3> DEFINE f == b[1]
               u == StorageFile(FinishExporting(f, feeds[f].format, s))
               e == [u EXCEPT !.closed = TRUE, !.storing = TRUE, !.stored = u.file]
    <3>1. /\ slot' = [slot EXCEPT ![b] = e] /\ t[2] = 1 /\ pending' = pending
          /\ ~s.closed /\ ~s.failed
          /\ UNCHANGED <<feeds, phase, slots, lock, task, turn, fresh, unrotated>>
      BY <2>4 DEF BeginStore
    <3>2. /\ u \in SlotRecords /\ SameState(s, u) /\ u.items = s.items
          /\ \A i : OnFile(s, i) => Has(u.file, i)
      BY <1>2, FinishKeeps
    <3> HIDE DEF u, s
    <3>3. /\ e \in SlotRecords
          /\ e.items = u.items /\ e.file = u.file /\ e.held = u.held /\ e.failed = u.failed
          /\ e.stored = u.file /\ e.success = u.success /\ e.closes = u.closes
          /\ e.closed /\ e.storing /\ e.told = u.told
      BY <3>2, StoringIs
    <3> HIDE DEF e
    <3>4. \A i : OnFile(s, i) => OnFile(e, i) /\ Has(e.stored, i)
      BY <3>2, <3>3 DEF OnFile
    <3>5. CloserMakes(t, s, e)
      BY <3>1, <3>2, <3>3, <3>4 DEF CloserMakes, SameState
    <3>6. Makes(e)
      BY <3>1, <3>2, <3>3, <3>4, <3>5 DEF SameState
    <3> QED BY <3>6, <1>1, <1>2 DEF s
  <2>5. CASE Stored(t)
    <3> DEFINE u == Told(s)
               e == [u EXCEPT !.success = TRUE]
    <3>1. /\ slot' = [slot EXCEPT ![b] = e] /\ t[2] = 1 /\ pending' = pending \ {t} /\ s.storing
          /\ UNCHANGED <<feeds, phase, slots, lock, task, turn, fresh, unrotated>>
      BY <2>5 DEF Stored, Storing, Ends
    <3>2. /\ u \in SlotRecords
          /\ u.items = s.items /\ u.file = s.file /\ u.held = s.held /\ u.failed = s.failed
          /\ u.stored = s.stored /\ u.success = s.success /\ u.closes = s.closes
          /\ u.closed /\ ~u.storing /\ u.told = s.told + 1
      BY <1>2, ToldIs
    <3> HIDE DEF u, s
    <3>3. /\ e \in SlotRecords
          /\ e.items = u.items /\ e.file = u.file /\ e.held = u.held /\ e.failed = u.failed
          /\ e.stored = u.stored /\ e.success /\ e.closes = u.closes
          /\ e.closed = u.closed /\ e.storing = u.storing /\ e.told = u.told
      BY <3>2, SuccessIs
    <3> HIDE DEF e
    <3>4. CloserMakes(t, s, e) /\ \A i : OnFile(s, i) => OnFile(e, i)
      BY <3>1, <3>2, <3>3 DEF CloserMakes, OnFile
    <3>5. Makes(e)
      BY <3>1, <3>2, <3>3, <3>4
    <3> QED BY <3>5, <1>1, <1>2 DEF s
  <2>6. CASE StoreFails(t)
    <3> DEFINE u == Told(s)
               e == [u EXCEPT !.failed = TRUE]
    <3>1. /\ slot' = [slot EXCEPT ![b] = e] /\ t[2] = 1 /\ pending' = pending \ {t} /\ s.storing
          /\ UNCHANGED <<feeds, phase, slots, lock, task, turn, fresh, unrotated>>
      BY <2>6 DEF StoreFails, Storing, Ends
    <3>2. /\ u \in SlotRecords
          /\ u.items = s.items /\ u.file = s.file /\ u.held = s.held /\ u.failed = s.failed
          /\ u.stored = s.stored /\ u.success = s.success /\ u.closes = s.closes
          /\ u.closed /\ ~u.storing /\ u.told = s.told + 1
      BY <1>2, ToldIs
    <3> HIDE DEF u, s
    <3>3. /\ e \in SlotRecords
          /\ e.items = u.items /\ e.file = u.file /\ e.held = u.held /\ e.failed
          /\ e.stored = u.stored /\ e.success = u.success /\ e.closes = u.closes
          /\ e.closed = u.closed /\ e.storing = u.storing /\ e.told = u.told
      BY <3>2, FailedIs
    <3> HIDE DEF e
    <3>4. CloserMakes(t, s, e) /\ \A i : OnFile(s, i) => OnFile(e, i)
      BY <3>1, <3>2, <3>3 DEF CloserMakes, OnFile
    <3>5. Makes(e)
      BY <3>1, <3>2, <3>3, <3>4
    <3> QED BY <3>5, <1>1, <1>2 DEF s
  <2> QED BY <2>1, <2>2, <2>3, <2>4, <2>5, <2>6 DEF CloserStep
<1> QED BY <1>1, SlotBecomes

-----------------------------------------------------------------------------
(* The invariant holds at first *)

LEMMA InitHolds == Init => FeedInv
<1> SUFFICES ASSUME Init PROVE FeedInv
  OBVIOUS
<1>1. Len(Feeds) \in Nat /\ Cardinality(Items) \in Nat
  BY FeedAssumption, FS_CardinalityType
<1>2. /\ NewSlot \in SlotRecords /\ NewSlot.items = <<>> /\ ~NewSlot.failed /\ ~NewSlot.closed
      /\ ~NewSlot.storing /\ ~NewSlot.success /\ NewSlot.closes = 0 /\ NewSlot.told = 0
  BY DEF NewSlot, SlotRecords
<1>3. FeedTypeOK
  BY <1>1, <1>2 DEF Init, FeedTypeOK
<1>4. \A i \in Items : task[i] = "new" /\ lock # i
  BY FeedAssumption DEF Init
<1>5. LoopFits
  BY <1>4 DEF Init, LoopFits, Busy
<1>6. PendingFits
  BY FeedAssumption, FS_EmptySet DEF Init, PendingFits
<1>7. \A b \in Batches : slot[b] = NewSlot
  BY DEF Init
<1>8. ClosesAreKept
  BY <1>2, <1>7 DEF Init, ClosesAreKept
<1>9. SlotsAreCounted
  <2>1. {i \in Items : task[i] = "done"} = {}
    BY <1>4
  <2> QED BY <2>1, FS_EmptySet DEF Init, SlotsAreCounted
<1>10. BatchesInOrder
  <2>1. \A b \in Batches : ~(b[2] < slots[b[1]])
    BY DEF Init, Batches, BatchIds
  <2> QED BY <1>2, <1>7, <2>1 DEF Init, BatchesInOrder, BehindAndAhead, GivenToTasks
<1>11. ClosedAreFull
  BY <1>2, <1>7 DEF ClosedAreFull
<1>12. OpenAreOpen
  <2>1. \A f \in FeedNames : <<f, slots[f]>> \in Batches
    BY <1>3, <1>9, OpenIsABatch
  <2> QED BY <1>2, <1>7, <2>1 DEF OpenAreOpen
<1>13. ItemsArePlaced
  BY <1>4 DEF ItemsArePlaced, Busy
<1>14. FilesHaveTheirItems
  BY <1>2, <1>7 DEF FilesHaveTheirItems, Range
<1>15. StoredHaveTheirItems
  BY <1>2, <1>7 DEF StoredHaveTheirItems
<1> QED BY <1>3, <1>5, <1>6, <1>8, <1>9, <1>10, <1>11, <1>12, <1>13, <1>14, <1>15 DEF FeedInv

-----------------------------------------------------------------------------
(* Every step keeps it *)

LEMMA TypeKept ==
    ASSUME FeedInv, Next
    PROVE  FeedTypeOK'
<1> USE DEF FeedInv
<1>0. NoItem \notin Items /\ Len(Feeds) \in Nat
  BY FeedAssumption
<1>b. brought' \subseteq Items \X Batches
  <2>1. ASSUME NEW i \in Items, TurnStep(i) PROVE brought' \subseteq Items \X Batches
    <3>1. Here \in Batches
      BY <2>1, TurnDoes
    <3> QED BY <2>1, <3>1, TurnBrings DEF FeedTypeOK
  <2> QED BY <2>1, AnyStep, QuietKeeps, OthersBringNothing DEF FeedTypeOK
<1>1. CASE QuietStep
  <2>1. UNCHANGED <<feeds, slot, pending, unrotated>>
    BY <1>1, QuietKeeps
  <2>2. CASE Disable \/ OpenSpider \/ Gather
    BY <1>b, <2>2 DEF Disable, OpenSpider, Gather, FeedTypeOK
  <2>3. CASE Shutdown
    BY <1>b, <2>3, <1>0 DEF Shutdown, FeedTypeOK
  <2>4. ASSUME NEW i \in Items, Refuse(i) \/ Scrape(i) \/ Wait(i) PROVE FeedTypeOK'
    BY <1>b, <2>4 DEF Refuse, Scrape, Wait, FeedTypeOK, Busy
  <2>5. ASSUME NEW i \in Items, Lock(i) PROVE FeedTypeOK'
    BY <1>b, <2>5, <1>0 DEF Lock, FeedTypeOK, Busy
  <2>6. ASSUME NEW i \in Items, Exported(i) PROVE FeedTypeOK'
    BY <1>b, <2>6 DEF Exported, FeedTypeOK
  <2> QED BY <1>1, <2>2, <2>3, <2>4, <2>5, <2>6 DEF QuietStep
<1>2. CASE ScheduleStep
  <2>1. /\ turn <= Len(Feeds) /\ Here \in Batches /\ Feed \in FeedNames
        /\ UNCHANGED <<feeds, slots>>
        /\ slot' \in [Batches -> SlotRecords]
        /\ pending' = pending \cup {<<Here, slot[Here].closes + 1>>}
    BY <1>2, ScheduleDoes
  <2>2. slot[Here].closes + 1 \in Nat \ {0}
    <3>1. slot[Here] \in SlotRecords
      BY <2>1 DEF FeedTypeOK
    <3> QED BY <3>1 DEF SlotRecords
  <2>3. pending' \subseteq Batches \X (Nat \ {0})
    BY <2>1, <2>2 DEF FeedTypeOK
  <2>4. CASE CloseNext
    BY <1>b, <2>1, <2>3, <2>4, <1>0 DEF CloseNext, FeedTypeOK
  <2>5. ASSUME NEW i \in Items, Rotate(i) PROVE FeedTypeOK'
    BY <1>b, <2>1, <2>3, <2>5, <1>0 DEF Rotate, FeedTypeOK, Busy
  <2>6. ASSUME NEW i \in Items, RotateFails(i) PROVE FeedTypeOK'
    BY <1>b, <2>1, <2>3, <2>6, <1>0 DEF RotateFails, FeedTypeOK
  <2> QED BY <1>2, <2>4, <2>5, <2>6 DEF ScheduleStep
<1>3. ASSUME NEW i \in Items, TurnStep(i) PROVE FeedTypeOK'
  BY <1>b, <1>3, <1>0, TurnDoes DEF FeedTypeOK, Busy
<1>4. ASSUME NEW t \in pending, CloserStep(t) PROVE FeedTypeOK'
  <2>1. pending' \in {pending, pending \ {t}}
    BY <1>4, CloserDoes DEF CloserMakes
  <2> QED BY <1>b, <2>1, <1>4, CloserDoes DEF FeedTypeOK
<1> QED BY <1>1, <1>2, <1>3, <1>4, AnyStep

LEMMA LoopKept ==
    ASSUME FeedInv, Next
    PROVE  LoopFits'
<1> USE DEF FeedInv
<1>0. NoItem \notin Items /\ Len(Feeds) \in Nat
  BY FeedAssumption
<1>1. FeedTypeOK'
  BY TypeKept
<1>3. CASE QuietStep
  <2>1. slot' = slot
    BY <1>3, QuietKeeps
  <2>2. CASE Disable \/ OpenSpider \/ Gather
    BY <2>1, <2>2 DEF Disable, OpenSpider, Gather, LoopFits, Here, Feed, Full
  <2>3. CASE Shutdown
    <3>1. \A i \in Items : task'[i] \notin Busy
      BY <2>3 DEF Shutdown, Busy
    <3> QED BY <2>3, <3>1, <1>0 DEF Shutdown, LoopFits, Busy
  <2>4. ASSUME NEW i \in Items, Refuse(i) \/ Scrape(i) PROVE LoopFits'
    <3>1. UNCHANGED <<phase, slots, slot, lock, turn, fresh>> /\ task[i] = "new"
      BY <2>1, <2>4 DEF Refuse, Scrape
    <3>2. \A j \in Items : task'[j] = task[j] \/ (task'[j] \in {"refused", "waiting"} /\ phase = "open")
      BY <2>4 DEF Refuse, Scrape, FeedTypeOK
    <3>3. \A j \in Items : task[j] = "new" => task[j] \notin Busy
      BY DEF Busy
    <3>4. \A j \in Items : task'[j] \in Busy <=> task[j] \in Busy
      BY <2>4, <3>2, <3>3 DEF Refuse, Scrape, Busy, FeedTypeOK
    <3>5. \A j \in Items : task'[j] \in {"rotating", "blocked"} => task'[j] = task[j]
      BY <3>2
    <3> QED BY <3>1, <3>2, <3>4, <3>5 DEF LoopFits, Here, Feed, Full
  <2>5. ASSUME NEW i \in Items, Wait(i) PROVE LoopFits'
    <3>1. UNCHANGED <<phase, slots, slot, lock, turn, fresh>> /\ task[i] = "rotating"
      BY <2>1, <2>5 DEF Wait
    <3>2. \A j \in Items : task'[j] = IF j = i THEN "blocked" ELSE task[j]
      BY <2>5 DEF Wait, FeedTypeOK
    <3> QED BY <3>1, <3>2 DEF LoopFits, Here, Feed, Full, Busy
  <2>6. ASSUME NEW i \in Items, Lock(i) PROVE LoopFits'
    <3>1. lock = NoItem /\ lock' = i /\ turn' = 1 /\ fresh' = {} /\ phase' = phase
      BY <2>6 DEF Lock
    <3>2. \A j \in Items : task'[j] = IF j = i THEN "exporting" ELSE task[j]
      BY <2>6 DEF Lock, FeedTypeOK
    <3>3. phase = "open"
      BY <2>6 DEF Lock, LoopFits
    <3> QED BY <3>1, <3>2, <3>3, <1>0 DEF LoopFits, Busy
  <2>7. ASSUME NEW i \in Items, Exported(i) PROVE LoopFits'
    <3>1. lock = i /\ lock' = NoItem /\ phase' = phase
      BY <2>7 DEF Exported
    <3>2. \A j \in Items : task'[j] = IF j = i THEN "done" ELSE task[j]
      BY <2>7 DEF Exported, FeedTypeOK
    <3> QED BY <3>1, <3>2, <1>0 DEF LoopFits, Busy
  <2> QED BY <1>3, <2>2, <2>3, <2>4, <2>5, <2>6, <2>7 DEF QuietStep
<1>4. CASE ScheduleStep
  <2>1. /\ turn <= Len(Feeds) /\ Here \in Batches /\ Feed \in FeedNames
        /\ UNCHANGED <<feeds, slots>>
    BY <1>4, ScheduleDoes
  <2>2. CASE CloseNext
    <3>1. phase = "closing" /\ UNCHANGED <<phase, lock, task>>
      BY <2>2 DEF CloseNext
    <3>2. \A i \in Items : task[i] \notin Busy
      BY <3>1, <1>0 DEF LoopFits, FeedTypeOK
    <3> QED BY <3>1, <3>2 DEF LoopFits, FeedTypeOK, Busy
  <2>3. ASSUME NEW i \in Items, Rotate(i) PROVE LoopFits'
    <3>1. /\ UNCHANGED <<phase, lock>> /\ lock = i /\ phase = "open"
          /\ turn' = turn + 1 /\ fresh' = fresh \cup {Feed}
      BY <2>3, <1>0 DEF Rotate, LoopFits, Busy
    <3>2. \A j \in Items : task'[j] = IF j = i THEN "exporting" ELSE task[j]
      BY <2>3 DEF Rotate, FeedTypeOK
    <3>3. fresh' \subseteq {Feeds[k] : k \in 1..(turn' - 1)}
      <4>1. fresh \subseteq {Feeds[k] : k \in 1..(turn - 1)}
        BY <3>1, <1>0 DEF LoopFits
      <4> QED BY <4>1, <3>1 DEF FeedTypeOK, Feed
    <3> QED BY <3>1, <3>2, <3>3 DEF LoopFits, Busy
  <2>4. ASSUME NEW i \in Items, RotateFails(i) PROVE LoopFits'
    <3>1. lock = i /\ lock' = NoItem /\ phase' = phase
      BY <2>4 DEF RotateFails, LoopFits, Busy
    <3>2. \A j \in Items : task'[j] = IF j = i THEN "raised" ELSE task[j]
      BY <2>4 DEF RotateFails, FeedTypeOK
    <3> QED BY <3>1, <3>2, <1>0 DEF LoopFits, Busy
  <2> QED BY <1>4, <2>2, <2>3, <2>4 DEF ScheduleStep
<1>5. ASSUME NEW i \in Items, TurnStep(i) PROVE LoopFits'
  <2>1. lock = i /\ task[i] = "exporting" /\ turn <= Len(Feeds)
        /\ UNCHANGED <<feeds, phase, slots, lock, fresh>>
    BY <1>5, TurnDoes
  <2>2. fresh \subseteq {Feeds[k] : k \in 1..(turn - 1)} /\ phase = "open"
    BY <2>1, <1>0 DEF LoopFits
  <2>3. \A j \in Items : j # i => task[j] \notin Busy
    BY <2>1 DEF LoopFits
  <2>4. CASE turn' = turn + 1 /\ task' = task
    <3>1. fresh' \subseteq {Feeds[k] : k \in 1..(turn' - 1)}
      BY <2>1, <2>2, <2>4 DEF FeedTypeOK
    <3> QED BY <2>1, <2>2, <2>3, <2>4, <3>1 DEF LoopFits, Busy
  <2>5. CASE /\ task' = [task EXCEPT ![i] = "rotating"] /\ turn' = turn
             /\ i \in Accepts[Feed] /\ Full(slot'[Here])
    <3>1. Full(slot[Here])' /\ Feed' = Feed
      BY <2>1, <2>5 DEF Full, Here, Feed
    <3>2. \A j \in Items : task'[j] = IF j = i THEN "rotating" ELSE task[j]
      BY <2>5 DEF FeedTypeOK
    <3>3. fresh' \subseteq {Feeds[k] : k \in 1..(turn' - 1)}
      BY <2>1, <2>2, <2>5
    <3> QED BY <2>1, <2>2, <2>3, <2>5, <3>1, <3>2, <3>3 DEF LoopFits, Busy
  <2> QED BY <1>5, <2>4, <2>5, TurnDoes
<1>6. ASSUME NEW t \in pending, CloserStep(t) PROVE LoopFits'
  <2>1. UNCHANGED <<phase, slots, lock, task, turn, fresh>>
    BY <1>6, CloserDoes
  <2>2. \A b \in Batches : slot'[b].items = slot[b].items
    BY <1>6, CloserDoes
  <2>3. turn <= Len(Feeds) => Full(slot[Here])' = Full(slot[Here])
    BY <2>1, <2>2, OpenIsABatch DEF Full, Here, Feed
  <2>4. Feed' = Feed
    BY <2>1 DEF Feed
  <2> QED BY <2>1, <2>3, <2>4 DEF LoopFits
<1> QED BY <1>3, <1>4, <1>5, <1>6, AnyStep

LEMMA PendingKept ==
    ASSUME FeedInv, Next
    PROVE  PendingFits'
<1> USE DEF FeedInv
<1>0. StorageConcurrency \in Nat /\ IsFiniteSet(pending) /\ Cardinality(pending) \in Nat
      /\ Cardinality(pending) <= StorageConcurrency
  BY FeedAssumption, FS_CardinalityType DEF PendingFits
<1>1. CASE QuietStep
  BY <1>1, QuietKeeps DEF PendingFits
<1>2. CASE ScheduleStep
  <2> DEFINE t == <<Here, slot[Here].closes + 1>>
  <2>1. /\ HasRoom /\ Here \in Batches /\ pending' = pending \cup {t}
        /\ \A b \in Batches :
              slot'[b].closes = IF b = Here THEN slot[b].closes + 1 ELSE slot[b].closes
    BY <1>2, ScheduleDoes
  <2>2. \A b \in Batches : slot[b].closes \in Nat
    BY DEF FeedTypeOK, SlotRecords
  <2>3. IsFiniteSet(pending') /\ Cardinality(pending') <= StorageConcurrency
    <3>1. Cardinality(pending) + 1 <= StorageConcurrency
      BY <2>1, <1>0 DEF HasRoom
    <3> HIDE DEF t
    <3> QED BY <2>1, <3>1, <1>0, FS_AddElement
  <2>4. ASSUME NEW u \in pending' PROVE u[2] <= slot'[u[1]].closes
    <3>1. CASE u \in pending
      <4>1. u[1] \in Batches /\ u[2] \in Nat /\ u[2] <= slot[u[1]].closes
        BY <3>1 DEF FeedTypeOK, PendingFits
      <4> QED BY <4>1, <2>1, <2>2
    <3>2. CASE u = t
      BY <3>2, <2>1, <2>2
    <3> QED BY <2>1, <3>1, <3>2
  <2> QED BY <2>3, <2>4 DEF PendingFits
<1>3. ASSUME NEW i \in Items, TurnStep(i) PROVE PendingFits'
  <2>1. pending' = pending /\ \A b \in Batches : slot'[b].closes = slot[b].closes
    BY <1>3, TurnDoes
  <2> QED BY <2>1 DEF PendingFits, FeedTypeOK
<1>4. ASSUME NEW t \in pending, CloserStep(t) PROVE PendingFits'
  <2>1. \A b \in Batches : slot'[b].closes = slot[b].closes
    BY <1>4, CloserDoes
  <2>2. pending' \in {pending, pending \ {t}}
    BY <1>4, CloserDoes DEF CloserMakes
  <2>3. IsFiniteSet(pending') /\ Cardinality(pending') <= StorageConcurrency
    BY <1>0, <2>2, FS_RemoveElement
  <2> QED BY <2>1, <2>2, <2>3 DEF PendingFits, FeedTypeOK
<1> QED BY <1>1, <1>2, <1>3, <1>4, AnyStep

LEMMA ClosesKept ==
    ASSUME FeedInv, Next
    PROVE  ClosesAreKept'
<1> USE DEF FeedInv
<1>1. CASE QuietStep
  BY <1>1, QuietKeeps DEF ClosesAreKept
<1>2. CASE ScheduleStep
  <2> DEFINE t == <<Here, slot[Here].closes + 1>>
  <2>1. /\ Here \in Batches /\ pending' = pending \cup {t}
        /\ \A b \in Batches :
              /\ slot'[b].items = slot[b].items /\ slot'[b].failed = slot[b].failed
              /\ slot'[b].closed = slot[b].closed /\ slot'[b].storing = slot[b].storing
              /\ slot'[b].success = slot[b].success /\ slot'[b].told = slot[b].told
              /\ slot'[b].closes = IF b = Here THEN slot[b].closes + 1 ELSE slot[b].closes
    BY <1>2, ScheduleDoes
  <2>2. ASSUME NEW b \in Batches
        PROVE  /\ slot[b].closes \in Nat /\ slot'[b].closes >= slot[b].closes
               /\ <<b, 1>> \in pending' <=>
                     <<b, 1>> \in pending \/ (b = Here /\ slot[b].closes = 0)
    <3>1. slot[b].closes \in Nat
      BY DEF FeedTypeOK, SlotRecords
    <3>2. <<b, 1>> = t <=> b = Here /\ slot[b].closes = 0
      BY <3>1
    <3> QED BY <3>1, <3>2, <2>1
  <2>3. ASSUME NEW b \in Batches, b = Here, slot[b].closes = 0
        PROVE  ~slot[b].closed /\ ~slot[b].storing
    <3>1. \A u \in pending : u[2] <= slot[u[1]].closes
      BY DEF PendingFits
    <3>2. <<b, 1>> \notin pending
      BY <3>1, <2>3
    <3> QED BY <2>3, <3>2 DEF ClosesAreKept
  <2>4. ASSUME NEW b \in Batches
        PROVE  LET s == slot'[b] IN
               /\ <<b, 1>> \in pending' => s.closed = s.storing
               /\ <<b, 1>> \notin pending' => ~s.storing /\ (s.closes > 0 => s.closed)
               /\ s.closed => s.closes > 0
    <3>1. slot[b].closed \in BOOLEAN /\ slot[b].storing \in BOOLEAN /\ slot[b].closes \in Nat
      BY DEF FeedTypeOK, SlotRecords
    <3>a. slot'[b].closes = slot[b].closes + 1 \/ (b # Here /\ slot'[b].closes = slot[b].closes)
      BY <2>1
    <3>2. CASE b = Here /\ slot[b].closes = 0
      BY <2>1, <2>2, <2>3, <3>1, <3>2
    <3>3. CASE ~(b = Here /\ slot[b].closes = 0)
      <4>1. <<b, 1>> \in pending' <=> <<b, 1>> \in pending
        BY <2>2, <3>3
      <4>2. slot'[b].closes > 0 <=> slot[b].closes > 0
        <5>1. CASE b = Here
          BY <3>1, <3>3, <3>a, <5>1
        <5>2. CASE b # Here
          BY <2>1, <5>2
        <5> QED BY <5>1, <5>2
      <4>3. LET s == slot[b] IN
            /\ <<b, 1>> \in pending => s.closed = s.storing
            /\ <<b, 1>> \notin pending => ~s.storing /\ (s.closes > 0 => s.closed)
            /\ s.closed => s.closes > 0
        BY DEF ClosesAreKept
      <4>4. slot'[b].closed = slot[b].closed /\ slot'[b].storing = slot[b].storing
        BY <2>1
      <4> QED BY <4>1, <4>2, <4>3, <4>4, SMTT(30)
    <3> QED BY <3>2, <3>3
  <2>5. ASSUME NEW b \in Batches
        PROVE  LET s == slot'[b] IN
               /\ s.told <= 1
               /\ s.told = 1 => s.closed /\ ~s.storing /\ (s.success \/ s.failed)
               /\ s.success => s.told = 1
               /\ s.closed /\ ~s.storing /\ (s.items # <<>> \/ s.failed) => s.told = 1
    BY <2>1 DEF ClosesAreKept
  <2> HIDE DEF t
  <2> QED BY <2>4, <2>5, ZenonT(60) DEF ClosesAreKept
<1>3. ASSUME NEW i \in Items, TurnStep(i) PROVE ClosesAreKept'
  <2>1. /\ Here \in Batches /\ pending' = pending /\ lock = i
        /\ \A b \in Batches :
              /\ slot'[b].closed = slot[b].closed /\ slot'[b].storing = slot[b].storing
              /\ slot'[b].success = slot[b].success /\ slot'[b].told = slot[b].told
              /\ slot'[b].closes = slot[b].closes
              /\ slot[b].failed => slot'[b].failed
              /\ b # Here => slot'[b] = slot[b]
    BY <1>3, TurnDoes
  <2>2. slot[Here].closes > 0 => slot[Here].items # <<>>
    <3>1. phase = "open"
      BY <2>1, FeedAssumption DEF LoopFits
    <3> QED BY <2>1, <3>1 DEF ClosedAreFull
  <2>3. ASSUME NEW b \in Batches, slot'[b].closed /\ ~slot'[b].storing,
               slot'[b].items # <<>> \/ slot'[b].failed
        PROVE  slot'[b].told = 1
    <3>1. slot[b].items # <<>> \/ slot[b].failed
      BY <2>1, <2>2, <2>3 DEF ClosesAreKept
    <3> QED BY <2>1, <2>3, <3>1 DEF ClosesAreKept
  <2>4. ASSUME NEW b \in Batches
        PROVE  LET s == slot'[b] IN
               /\ <<b, 1>> \in pending' => s.closed = s.storing
               /\ <<b, 1>> \notin pending' => ~s.storing /\ (s.closes > 0 => s.closed)
               /\ s.closed => s.closes > 0
               /\ s.told <= 1
               /\ s.told = 1 => s.closed /\ ~s.storing /\ (s.success \/ s.failed)
               /\ s.success => s.told = 1
    BY <2>1 DEF ClosesAreKept
  <2> QED BY <2>3, <2>4 DEF ClosesAreKept
<1>4. ASSUME NEW t \in pending, CloserStep(t) PROVE ClosesAreKept'
  <2> DEFINE b == t[1]
             s == slot[b]
             e == slot'[b]
  <2>1. /\ b \in Batches /\ t = <<b, t[2]>> /\ s.closes > 0
        /\ \A c \in Batches : c # b => slot'[c] = slot[c]
        /\ e.items = s.items /\ e.closes = s.closes /\ (s.failed => e.failed)
        /\ CloserMakes(t, s, e)
    BY <1>4, CloserDoes
  <2>2. pending' \in {pending, pending \ {t}}
    BY <2>1 DEF CloserMakes
  <2>3. ASSUME NEW c \in Batches, c # b PROVE <<c, 1>> \in pending' <=> <<c, 1>> \in pending
    BY <2>1, <2>2, <2>3
  <2>4. s.told \in Nat /\ s \in SlotRecords /\ e \in SlotRecords
    BY <1>4, <2>1, CloserDoes DEF FeedTypeOK, SlotRecords
  <2>5. /\ <<b, 1>> \in pending' => e.closed = e.storing
        /\ <<b, 1>> \notin pending' => ~e.storing /\ (e.closes > 0 => e.closed)
        /\ e.closed => e.closes > 0
        /\ e.told <= 1
        /\ e.told = 1 => e.closed /\ ~e.storing /\ (e.success \/ e.failed)
        /\ e.success => e.told = 1
        /\ e.closed /\ ~e.storing /\ (e.items # <<>> \/ e.failed) => e.told = 1
    <3>1. /\ <<b, 1>> \in pending => s.closed = s.storing
          /\ <<b, 1>> \notin pending => ~s.storing /\ (s.closes > 0 => s.closed)
          /\ s.closed => s.closes > 0
          /\ s.told <= 1
          /\ s.told = 1 => s.closed /\ ~s.storing /\ (s.success \/ s.failed)
          /\ s.success => s.told = 1
          /\ s.closed /\ ~s.storing /\ (s.items # <<>> \/ s.failed) => s.told = 1
      BY <2>1 DEF ClosesAreKept
    <3>2. t[2] > 1 /\ pending' = pending \ {t} =>
             (<<b, 1>> \in pending' <=> <<b, 1>> \in pending)
      BY <2>1
    <3>3. t[2] = 1 => t = <<b, 1>>
      BY <2>1
    <3>4. s.closed \in BOOLEAN /\ s.storing \in BOOLEAN /\ s.failed \in BOOLEAN
          /\ s.success \in BOOLEAN /\ e.closed \in BOOLEAN /\ e.storing \in BOOLEAN
          /\ e.failed \in BOOLEAN /\ e.success \in BOOLEAN
      BY <2>4 DEF SlotRecords
    <3> HIDE DEF b, s, e
    <3> QED BY <2>1, <2>4, <3>1, <3>2, <3>3, <3>4, SMTT(30) DEF CloserMakes
  <2> HIDE DEF b
  <2> QED BY <2>1, <2>3, <2>5, ZenonT(60) DEF ClosesAreKept
<1> QED BY <1>1, <1>2, <1>3, <1>4, AnyStep

LEMMA CountKept ==
    ASSUME FeedInv, Next
    PROVE  SlotsAreCounted'
<1> USE DEF FeedInv
<1> DEFINE done == {i \in Items : task[i] = "done"}
<1>0. IsFiniteSet(done) /\ Cardinality(done) \in Nat
  BY DoneIsFinite
<1>1. ASSUME slots' = slots, \A i \in Items : task'[i] = "done" <=> task[i] = "done"
      PROVE  SlotsAreCounted'
  <2>1. done' = done
    BY <1>1
  <2> QED BY <1>1, <2>1 DEF SlotsAreCounted
<1>2. ASSUME NEW i \in Items, Exported(i) PROVE SlotsAreCounted'
  <2>1. done' = done \cup {i} /\ i \notin done
    BY <1>2 DEF Exported, FeedTypeOK
  <2>2. Cardinality(done') = Cardinality(done) + 1
    BY <1>0, <2>1, FS_AddElement
  <2>3. \A f \in FeedNames : slots[f] \in Nat /\ slots'[f] <= slots[f] + 1
    BY <1>2 DEF Exported, FeedTypeOK
  <2>4. \A f \in FeedNames : slots[f] <= Cardinality(done) + 1
    BY DEF SlotsAreCounted
  <2>5. \A f \in FeedNames : slots'[f] \in Nat
    BY <1>2 DEF Exported, FeedTypeOK
  <2> HIDE DEF done
  <2>6. \A f \in FeedNames : slots'[f] <= Cardinality(done') + 1
    BY <1>0, <2>2, <2>3, <2>4, <2>5
  <2> QED BY <2>6 DEF SlotsAreCounted, done
<1>3. ASSUME NEW i \in Items, Refuse(i) \/ Scrape(i) \/ Lock(i) \/ Wait(i) \/ Rotate(i)
             \/ RotateFails(i) \/ TurnStep(i)
      PROVE  SlotsAreCounted'
  <2>1. \A s \in {"refused", "waiting", "exporting", "rotating", "blocked", "raised"} :
           task[i] # "done" /\ task' = [task EXCEPT ![i] = s] =>
               \A j \in Items : task'[j] = "done" <=> task[j] = "done"
    BY DEF FeedTypeOK
  <2>2. slots' = slots /\ task[i] # "done"
    BY <1>3 DEF Refuse, Scrape, Lock, Wait, Rotate, RotateFails, TurnStep, Skip, Export, ExportFails,
                Exporting, Turn
  <2>3. \/ task' = task
        \/ \E s \in {"refused", "waiting", "exporting", "rotating", "blocked", "raised"} :
              task' = [task EXCEPT ![i] = s]
    BY <1>3 DEF Refuse, Scrape, Lock, Wait, Rotate, RotateFails, TurnStep, Skip, Export, ExportFails,
                Turn
  <2> QED BY <2>1, <2>2, <2>3, <1>1
<1>4. CASE Disable \/ OpenSpider \/ CloseNext \/ Gather
  BY <1>4, <1>1 DEF Disable, OpenSpider, CloseNext, Gather
<1>5. CASE Shutdown
  BY <1>5, <1>1 DEF Shutdown
<1>6. ASSUME NEW t \in pending, CloserStep(t) PROVE SlotsAreCounted'
  BY <1>6, <1>1, CloserDoes
<1> QED BY <1>2, <1>3, <1>4, <1>5, <1>6, AnyStep DEF QuietStep, ScheduleStep

LEMMA OrderKept ==
    ASSUME FeedInv, Next
    PROVE  BatchesInOrder'
<1> USE DEF FeedInv
<1>0. NoItem \notin Items /\ Len(Feeds) \in Nat
      /\ \A k \in 1..Len(Feeds) : Feeds[k] \in FeedNames
  BY FeedAssumption
<1>1. BehindAndAhead /\ GivenToTasks /\ (phase = "closed" => turn > Len(Feeds) /\ pending = {})
  BY DEF BatchesInOrder
<1>2. \A f \in FeedNames : <<f, slots[f]>> \in Batches
  BY OpenIsABatch
<1>3. \A k \in 1..(turn - 1) : Feeds[k] \in FeedNames
  BY <1>0 DEF FeedTypeOK
<1> SUFFICES /\ BehindAndAhead' /\ GivenToTasks'
             /\ phase' = "closed" => turn' > Len(Feeds) /\ pending' = {}
  BY DEF BatchesInOrder
<1>4. CASE QuietStep
  <2>1. slot' = slot /\ pending' = pending
    BY <1>4, QuietKeeps
  <2>2. CASE Disable \/ OpenSpider
    <3>1. UNCHANGED <<slots, lock, fresh, turn>> /\ phase' \in {"disabled", "open"}
      BY <2>2 DEF Disable, OpenSpider
    <3> QED BY <1>1, <2>1, <3>1 DEF BehindAndAhead, GivenToTasks
  <2>3. CASE Gather
    BY <1>1, <2>1, <2>3 DEF Gather, BehindAndAhead, GivenToTasks
  <2>4. CASE Shutdown
    BY <1>1, <2>1, <2>4 DEF Shutdown, BehindAndAhead, GivenToTasks
  <2>5. ASSUME NEW i \in Items, Refuse(i) \/ Scrape(i) \/ Wait(i)
        PROVE  UNCHANGED <<slots, lock, fresh, turn, phase>>
    BY <2>5 DEF Refuse, Scrape, Wait
  <2>6. ASSUME NEW i \in Items, Refuse(i) \/ Scrape(i) \/ Wait(i)
        PROVE  /\ BehindAndAhead' /\ GivenToTasks'
               /\ phase' = "closed" => turn' > Len(Feeds) /\ pending' = {}
    BY <1>1, <2>1, <2>5, <2>6 DEF BehindAndAhead, GivenToTasks
  <2>7. ASSUME NEW i \in Items, Lock(i)
        PROVE  BehindAndAhead' /\ GivenToTasks' /\ phase' # "closed"
    <3>1. phase = "open" /\ phase' = phase /\ slots' = slots /\ fresh' = {}
      BY <2>7 DEF Lock, LoopFits
    <3> QED BY <1>1, <2>1, <3>1 DEF BehindAndAhead, GivenToTasks
  <2>8. ASSUME NEW i \in Items, Exported(i)
        PROVE  BehindAndAhead' /\ GivenToTasks' /\ phase' # "closed"
    <3>1. lock = i /\ lock' = NoItem /\ phase = "open" /\ phase' = phase
      BY <2>8, <1>0 DEF Exported, LoopFits
    <3>2. \A f \in FeedNames : /\ slots[f] \in Nat
                               /\ slots'[f] = IF f \in fresh THEN slots[f] + 1 ELSE slots[f]
      BY <2>8 DEF Exported, FeedTypeOK
    <3>3. \A f \in fresh : slot[<<f, slots[f]>>].closes > 0
      BY <1>1, <3>1, <1>0 DEF GivenToTasks
    <3>4. ASSUME NEW b \in Batches
          PROVE  /\ b[2] < slots'[b[1]] => slot[b].closes > 0
                 /\ b[2] > slots'[b[1]] =>
                       slot[b].items = <<>> /\ ~slot[b].failed /\ slot[b].closes = 0
      <4>1. b[1] \in FeedNames /\ b[2] \in Nat /\ b = <<b[1], b[2]>>
        BY FeedAssumption, FS_CardinalityType DEF Batches, BatchIds
      <4>2. b[2] < slots'[b[1]] =>
              b[2] < slots[b[1]] \/ (b[1] \in fresh /\ b = <<b[1], slots[b[1]]>>)
        BY <4>1, <3>2
      <4>3. b[2] > slots'[b[1]] => b[2] > slots[b[1]]
        BY <4>1, <3>2
      <4> QED BY <4>2, <4>3, <3>3, <1>1 DEF BehindAndAhead
    <3> QED BY <2>1, <3>1, <3>4 DEF BehindAndAhead, GivenToTasks
  <2> QED BY <1>4, <2>2, <2>3, <2>4, <2>6, <2>7, <2>8 DEF QuietStep, BehindAndAhead, GivenToTasks
<1>5. CASE ScheduleStep
  <2>1. /\ turn <= Len(Feeds) /\ Here \in Batches /\ Feed \in FeedNames
        /\ slots' = slots
        /\ \A b \in Batches :
              /\ slot'[b].items = slot[b].items /\ slot'[b].failed = slot[b].failed
              /\ slot'[b].closes = IF b = Here THEN slot[b].closes + 1 ELSE slot[b].closes
    BY <1>5, ScheduleDoes
  <2>2. \A b \in Batches : slot[b].closes \in Nat
    BY DEF FeedTypeOK, SlotRecords
  <2>3. BehindAndAhead'
    <3>1. ~(Here[2] > slots[Here[1]])
      BY <2>1 DEF Here, FeedTypeOK
    <3> QED BY <1>1, <2>1, <2>2, <3>1 DEF BehindAndAhead
  <2>4. slot'[Here].closes > 0 /\ \A b \in Batches : slot[b].closes > 0 => slot'[b].closes > 0
    BY <2>1, <2>2
  <2>5. CASE CloseNext
    <3>1. phase = "closing" /\ phase' = phase /\ turn' = turn + 1 /\ lock' = NoItem
      BY <2>5, <1>0 DEF CloseNext, LoopFits, FeedTypeOK
    <3>2. ASSUME NEW k \in 1..(turn' - 1)
          PROVE  slot'[<<Feeds[k], slots[Feeds[k]]>>].closes > 0
      <4>1. CASE k = turn
        BY <2>4, <4>1 DEF Here, Feed
      <4>2. CASE k # turn
        <5>1. k \in 1..(turn - 1)
          BY <3>1, <4>2 DEF FeedTypeOK
        <5> QED BY <5>1, <1>1, <1>2, <1>3, <2>4, <3>1 DEF GivenToTasks
      <4> QED BY <4>1, <4>2
    <3> QED BY <2>1, <2>3, <3>1, <3>2 DEF GivenToTasks
  <2>6. ASSUME NEW i \in Items, Rotate(i) PROVE GivenToTasks' /\ phase' # "closed"
    <3>1. lock = i /\ lock' = lock /\ phase = "open" /\ phase' = phase /\ fresh' = fresh \cup {Feed}
      BY <2>6, <1>0 DEF Rotate, LoopFits, Busy
    <3>2. \A f \in fresh : f \in FeedNames /\ slot[<<f, slots[f]>>].closes > 0
      BY <1>1, <1>0, <3>1 DEF GivenToTasks, FeedTypeOK
    <3> QED BY <1>2, <2>1, <2>4, <3>1, <3>2 DEF GivenToTasks, Here
  <2>7. ASSUME NEW i \in Items, RotateFails(i) PROVE GivenToTasks' /\ phase' # "closed"
    <3>1. lock = i /\ lock' = NoItem /\ phase = "open" /\ phase' = phase
      BY <2>7, <1>0 DEF RotateFails, LoopFits, Busy
    <3> QED BY <3>1 DEF GivenToTasks
  <2> QED BY <1>5, <2>3, <2>5, <2>6, <2>7 DEF ScheduleStep
<1>6. ASSUME NEW i \in Items, TurnStep(i)
      PROVE  BehindAndAhead' /\ GivenToTasks' /\ phase' # "closed"
  <2>1. /\ lock = i /\ Here \in Batches /\ Feed \in FeedNames
        /\ UNCHANGED <<phase, slots, lock, fresh>>
        /\ \A b \in Batches : /\ slot'[b].closes = slot[b].closes
                              /\ b # Here => slot'[b] = slot[b]
    BY <1>6, TurnDoes
  <2>2. phase = "open"
    BY <2>1, <1>0 DEF LoopFits
  <2>3. BehindAndAhead'
    <3>1. ~(Here[2] > slots[Here[1]])
      BY <2>1 DEF Here, FeedTypeOK
    <3> QED BY <1>1, <2>1, <3>1 DEF BehindAndAhead
  <2> QED BY <1>1, <1>2, <2>1, <2>2, <2>3 DEF GivenToTasks, FeedTypeOK
<1>7. ASSUME NEW t \in pending, CloserStep(t)
      PROVE  /\ BehindAndAhead' /\ GivenToTasks'
             /\ phase' = "closed" => turn' > Len(Feeds) /\ pending' = {}
  <2>1. /\ t[1] \in Batches /\ slot[t[1]].closes > 0
        /\ UNCHANGED <<phase, slots, lock, turn, fresh>>
        /\ \A b \in Batches : /\ slot'[b].closes = slot[b].closes
                              /\ b # t[1] => slot'[b] = slot[b]
    BY <1>7, CloserDoes
  <2>2. BehindAndAhead'
    BY <1>1, <2>1 DEF BehindAndAhead
  <2>3. phase # "closed"
    BY <1>1
  <2> QED BY <1>1, <1>2, <1>3, <2>1, <2>2, <2>3 DEF GivenToTasks, FeedTypeOK
<1> QED BY <1>4, <1>5, <1>6, <1>7, AnyStep

LEMMA FullKept ==
    ASSUME FeedInv, Next
    PROVE  ClosedAreFull'
<1> USE DEF FeedInv
<1>0. NoItem \notin Items
  BY FeedAssumption
<1>1. CASE QuietStep
  <2>1. slot' = slot
    BY <1>1, QuietKeeps
  <2>2. phase' \notin {"closing", "closed"} => phase \notin {"closing", "closed"}
    BY <1>1 DEF QuietStep, Disable, OpenSpider, Shutdown, Gather, Refuse, Scrape, Lock, Wait, Exported
  <2> QED BY <2>1, <2>2 DEF ClosedAreFull
<1>2. CASE ScheduleStep
  <2>1. /\ Here \in Batches
        /\ \A b \in Batches :
              /\ slot'[b].items = slot[b].items
              /\ slot'[b].closes = IF b = Here THEN slot[b].closes + 1 ELSE slot[b].closes
    BY <1>2, ScheduleDoes
  <2>2. CASE CloseNext
    BY <2>2 DEF CloseNext, ClosedAreFull
  <2>3. ASSUME NEW i \in Items, Rotate(i) \/ RotateFails(i) PROVE ClosedAreFull'
    <3>1. task[i] \in {"rotating", "blocked"} /\ phase' = phase
      BY <2>3 DEF Rotate, RotateFails
    <3>2. Full(slot[Here]) /\ lock = i
      BY <3>1 DEF LoopFits, Busy
    <3>3. slot[Here].items \in Seq(Items)
      BY <2>1 DEF FeedTypeOK, SlotRecords
    <3>4. slot[Here].items # <<>>
      <4>1. Feed \in FeedNames /\ BatchSize[Feed] \in Nat
        BY <1>2, ScheduleDoes, FeedAssumption
      <4> QED BY <3>2, <3>3, <4>1 DEF Full
    <3> QED BY <2>1, <3>1, <3>4 DEF ClosedAreFull
  <2> QED BY <1>2, <2>2, <2>3 DEF ScheduleStep
<1>3. ASSUME NEW i \in Items, TurnStep(i) PROVE ClosedAreFull'
  <2>1. /\ Here \in Batches /\ phase' = phase
        /\ \A b \in Batches : /\ slot'[b].closes = slot[b].closes
                              /\ b # Here => slot'[b] = slot[b]
        /\ slot'[Here].items \in {slot[Here].items, Append(slot[Here].items, i)}
    BY <1>3, TurnDoes
  <2>2. Append(slot[Here].items, i) # <<>>
    <3>1. slot[Here].items \in Seq(Items)
      BY <2>1 DEF FeedTypeOK, SlotRecords
    <3> QED BY <3>1
  <2> QED BY <2>1, <2>2 DEF ClosedAreFull
<1>4. ASSUME NEW t \in pending, CloserStep(t) PROVE ClosedAreFull'
  <2>1. phase' = phase /\ \A b \in Batches : slot'[b].closes = slot[b].closes
                                             /\ slot'[b].items = slot[b].items
    BY <1>4, CloserDoes
  <2> QED BY <2>1 DEF ClosedAreFull
<1> QED BY <1>1, <1>2, <1>3, <1>4, AnyStep

LEMMA OpenKept ==
    ASSUME FeedInv, Next
    PROVE  OpenAreOpen'
<1> USE DEF FeedInv
<1>0. NoItem \notin Items
  BY FeedAssumption
<1>1. \A f \in FeedNames : <<f, slots[f]>> \in Batches
  BY OpenIsABatch
<1>2. CASE QuietStep
  <2>1. slot' = slot /\ unrotated' = unrotated
    BY <1>2, QuietKeeps
  <2>2. CASE Disable \/ OpenSpider
    <3>1. UNCHANGED <<slots, lock, fresh>> /\ phase = "created"
      BY <2>2 DEF Disable, OpenSpider
    <3> QED BY <2>1, <3>1 DEF OpenAreOpen
  <2>3. CASE Shutdown \/ Gather
    BY <2>3 DEF Shutdown, Gather, OpenAreOpen
  <2>4. ASSUME NEW i \in Items, Refuse(i) \/ Scrape(i) \/ Wait(i) PROVE OpenAreOpen'
    <3>1. UNCHANGED <<slots, lock, fresh, phase>>
      BY <2>4 DEF Refuse, Scrape, Wait
    <3> QED BY <2>1, <3>1 DEF OpenAreOpen
  <2>5. ASSUME NEW i \in Items, Lock(i) PROVE OpenAreOpen'
    <3>1. lock = NoItem /\ slots' = slots /\ phase' = phase
      BY <2>5 DEF Lock
    <3> QED BY <2>1, <3>1 DEF OpenAreOpen
  <2>6. ASSUME NEW i \in Items, Exported(i) PROVE OpenAreOpen'
    <3>1. lock = i /\ phase' = phase
      BY <2>6 DEF Exported
    <3>2. \A f \in FeedNames : /\ slots[f] \in Nat
                               /\ slots'[f] = IF f \in fresh THEN slots[f] + 1 ELSE slots[f]
      BY <2>6 DEF Exported, FeedTypeOK
    <3>3. \A f \in FeedNames : <<f, slots'[f]>> \in Batches
      <4> DEFINE done == {j \in Items : task'[j] = "done"}
      <4>1. \A f \in FeedNames : slots'[f] \in Nat \ {0} /\ slots'[f] <= Cardinality(done) + 1
        BY TypeKept, CountKept DEF FeedTypeOK, SlotsAreCounted
      <4>2. /\ Cardinality(done) \in Nat /\ Cardinality(Items) \in Nat
            /\ Cardinality(done) <= Cardinality(Items)
        BY FeedAssumption, FS_Subset, FS_CardinalityType
      <4> HIDE DEF done
      <4> QED BY <4>1, <4>2 DEF Batches, BatchIds
    <3>4. ASSUME NEW f \in FeedNames \ unrotated, phase \notin {"closing", "closed"}
          PROVE  slot[<<f, slots'[f]>>].closes = 0
      <4>1. CASE f \in fresh
        <5>1. slots'[f] > slots[f] /\ <<f, slots'[f]>> \in Batches
          BY <3>2, <3>3, <4>1
        <5> QED BY <5>1 DEF BatchesInOrder, BehindAndAhead
      <4>2. CASE f \notin fresh
        BY <3>2, <3>4, <4>2 DEF OpenAreOpen
      <4> QED BY <4>1, <4>2
    <3> QED BY <2>1, <3>1, <3>4 DEF OpenAreOpen
  <2> QED BY <1>2, <2>2, <2>3, <2>4, <2>5, <2>6 DEF QuietStep
<1>3. CASE ScheduleStep
  <2>1. /\ slots' = slots
        /\ \A b \in Batches : b # Here => slot'[b].closes = slot[b].closes
    BY <1>3, ScheduleDoes
  <2>2. \A f \in FeedNames : f # Feed => slot'[<<f, slots[f]>>].closes = slot[<<f, slots[f]>>].closes
    BY <1>1, <2>1 DEF Here
  <2>3. CASE CloseNext
    BY <2>3 DEF CloseNext, OpenAreOpen
  <2>4. ASSUME NEW i \in Items, Rotate(i) PROVE OpenAreOpen'
    <3>1. lock = i /\ lock' = lock /\ phase' = phase /\ unrotated' = unrotated
          /\ fresh' = fresh \cup {Feed}
      BY <2>4 DEF Rotate, LoopFits, Busy
    <3> QED BY <1>0, <2>1, <2>2, <3>1 DEF OpenAreOpen
  <2>5. ASSUME NEW i \in Items, RotateFails(i) PROVE OpenAreOpen'
    <3>1. lock = i /\ phase' = phase /\ unrotated' = unrotated \cup fresh \cup {Feed}
      BY <2>5 DEF RotateFails, LoopFits, Busy
    <3> QED BY <1>0, <2>1, <2>2, <3>1 DEF OpenAreOpen
  <2> QED BY <1>3, <2>3, <2>4, <2>5 DEF ScheduleStep
<1>4. ASSUME NEW i \in Items, TurnStep(i) PROVE OpenAreOpen'
  <2>1. /\ UNCHANGED <<phase, slots, lock, fresh, unrotated>>
        /\ \A b \in Batches : slot'[b].closes = slot[b].closes
    BY <1>4, TurnDoes
  <2> QED BY <1>1, <2>1 DEF OpenAreOpen
<1>5. ASSUME NEW t \in pending, CloserStep(t) PROVE OpenAreOpen'
  <2>1. /\ UNCHANGED <<phase, slots, lock, fresh, unrotated>>
        /\ \A b \in Batches : slot'[b].closes = slot[b].closes
    BY <1>5, CloserDoes
  <2> QED BY <1>1, <2>1 DEF OpenAreOpen
<1> QED BY <1>2, <1>3, <1>4, <1>5, AnyStep

LEMMA PlacedKept ==
    ASSUME FeedInv, Next
    PROVE  ItemsArePlaced'
<1> USE DEF FeedInv
<1>0. NoItem \notin Items /\ Len(Feeds) \in Nat
  BY FeedAssumption
\* What has gone past feed f, or is about to turn over its batch.
<1> DEFINE Past(i, f) ==
        \/ task[i] = "done"
        \/ task[i] \in Busy /\ \E k \in 1..(turn - 1) : Feeds[k] = f
        \/ task[i] \in {"rotating", "blocked"} /\ Feeds[turn] = f
<1>1. \A i \in Items : \A f \in FeedNames : i \in Accepts[f] /\ Past(i, f) => Placed(i, f)
  BY DEF ItemsArePlaced
<1>2. ASSUME \A i \in Items : \A f \in FeedNames : i \in Accepts[f] /\ Past(i, f)' => Placed(i, f)'
      PROVE  ItemsArePlaced'
  BY <1>2 DEF ItemsArePlaced
<1>3. ASSUME brought' = brought,
             \A b \in Batches : slot'[b].items = slot[b].items /\ (slot[b].failed => slot'[b].failed),
             NEW i \in Items, NEW f \in FeedNames, Placed(i, f)
      PROVE  Placed(i, f)'
  BY <1>3 DEF Placed
<1>4. CASE QuietStep
  <2>1. slot' = slot /\ brought' = brought
    BY <1>4, QuietKeeps
  <2>2. ASSUME NEW i \in Items, NEW f \in FeedNames, i \in Accepts[f], Past(i, f)'
        PROVE  Past(i, f)
    <3>1. CASE Disable \/ OpenSpider \/ Gather
      BY <2>2, <3>1 DEF Disable, OpenSpider, Gather
    <3>2. CASE Shutdown
      <4>1. task'[i] = "done" => task[i] = "done"
        BY <3>2 DEF Shutdown, FeedTypeOK
      <4>2. task'[i] \notin Busy
        BY <3>2 DEF Shutdown, FeedTypeOK, Busy
      <4> QED BY <2>2, <4>1, <4>2 DEF Busy
    <3>3. ASSUME NEW j \in Items, Refuse(j) \/ Scrape(j) PROVE Past(i, f)
      <4>1. turn' = turn /\ (task'[i] = task[i] \/ task'[i] \in {"refused", "waiting"})
        BY <3>3 DEF Refuse, Scrape, FeedTypeOK
      <4> QED BY <2>2, <4>1 DEF Busy
    <3>4. ASSUME NEW j \in Items, Wait(j) PROVE Past(i, f)
      <4>1. turn' = turn /\ (task'[i] = task[i] \/ (task[i] = "rotating" /\ task'[i] = "blocked"))
        BY <3>4 DEF Wait, FeedTypeOK
      <4> QED BY <2>2, <4>1 DEF Busy
    <3>5. ASSUME NEW j \in Items, Lock(j) PROVE Past(i, f)
      <4>1. turn' = 1 /\ task'[i] = IF i = j THEN "exporting" ELSE task[i]
        BY <3>5 DEF Lock, FeedTypeOK
      <4>2. lock = NoItem
        BY <3>5 DEF Lock
      <4>3. task[i] \notin Busy
        BY <1>0, <4>2 DEF LoopFits
      <4> QED BY <2>2, <4>1, <4>3 DEF Busy
    <3>6. ASSUME NEW j \in Items, Exported(j) PROVE Past(i, f)
      <4>1. task[j] = "exporting" /\ turn > Len(Feeds) /\ turn' = turn
            /\ task'[i] = IF i = j THEN "done" ELSE task[i]
        BY <3>6 DEF Exported, FeedTypeOK
      <4>2. CASE i = j
        <5>1. \E k \in 1..Len(Feeds) : Feeds[k] = f
          BY FeedAssumption DEF FeedNames, Range
        <5>2. \E k \in 1..(turn - 1) : Feeds[k] = f
          BY <1>0, <4>1, <5>1 DEF FeedTypeOK
        <5> QED BY <4>1, <4>2, <5>2 DEF Busy
      <4> QED BY <2>2, <4>1, <4>2
    <3> QED BY <1>4, <3>1, <3>2, <3>3, <3>4, <3>5, <3>6 DEF QuietStep
  <2> HIDE DEF Past
  <2>3. ASSUME NEW i \in Items, NEW f \in FeedNames, i \in Accepts[f], Past(i, f)'
        PROVE  Placed(i, f)'
    BY <2>1, <2>2, <2>3, <1>1 DEF Placed
  <2> QED BY <2>3, <1>2
<1>5. CASE ScheduleStep
  <2>1. /\ \A b \in Batches : slot'[b].items = slot[b].items /\ slot'[b].failed = slot[b].failed
        /\ brought' = brought
    BY <1>5, ScheduleDoes, OthersBringNothing
  <2>2. ASSUME NEW i \in Items, NEW f \in FeedNames, i \in Accepts[f], Past(i, f)'
        PROVE  Past(i, f)
    <3>1. CASE CloseNext
      <4>1. task' = task /\ lock = NoItem
        BY <3>1, <1>0 DEF CloseNext, LoopFits, FeedTypeOK
      <4>2. task[i] \notin Busy
        BY <1>0, <4>1 DEF LoopFits
      <4> QED BY <2>2, <4>1, <4>2 DEF Busy
    <3>2. ASSUME NEW j \in Items, Rotate(j) PROVE Past(i, f)
      <4>1. task[j] \in {"rotating", "blocked"} /\ turn' = turn + 1
            /\ task'[i] = IF i = j THEN "exporting" ELSE task[i]
        BY <3>2 DEF Rotate, FeedTypeOK
      <4>2. i # j => task[i] \notin Busy
        BY <4>1 DEF LoopFits, Busy
      <4>3. CASE i = j
        <5>1. PICK k \in 1..turn : Feeds[k] = f
          BY <2>2, <4>1, <4>3 DEF FeedTypeOK
        <5>2. k = turn \/ k \in 1..(turn - 1)
          BY DEF FeedTypeOK
        <5> QED BY <4>1, <4>3, <5>1, <5>2 DEF Busy
      <4> QED BY <2>2, <4>1, <4>2, <4>3 DEF Busy
    <3>3. ASSUME NEW j \in Items, RotateFails(j) PROVE Past(i, f)
      <4>1. task[j] \in {"rotating", "blocked"} /\ turn' = turn
            /\ task'[i] = IF i = j THEN "raised" ELSE task[i]
        BY <3>3 DEF RotateFails, FeedTypeOK
      <4> QED BY <2>2, <4>1 DEF Busy
    <3> QED BY <1>5, <3>1, <3>2, <3>3 DEF ScheduleStep
  <2> HIDE DEF Past
  <2>3. ASSUME NEW i \in Items, NEW f \in FeedNames, i \in Accepts[f], Past(i, f)'
        PROVE  Placed(i, f)'
    BY <2>1, <2>2, <2>3, <1>1, <1>3
  <2> QED BY <2>3, <1>2
<1>6. ASSUME NEW j \in Items, TurnStep(j) PROVE ItemsArePlaced'
  <2>1. /\ Here \in Batches /\ Feed \in FeedNames /\ lock = j /\ task[j] = "exporting"
        /\ \A b \in Batches : b # Here => slot'[b] = slot[b]
        /\ slot[Here].failed => slot'[Here].failed
        /\ slot'[Here].items \in {slot[Here].items, Append(slot[Here].items, j)}
        /\ j \in Accepts[Feed] => slot'[Here].failed \/ slot'[Here].items = Append(slot[Here].items, j)
        /\ \/ task' = [task EXCEPT ![j] = "rotating"] /\ turn' = turn
           \/ task' = task /\ turn' = turn + 1
    BY <1>6, TurnDoes
  <2>b. brought \subseteq brought' /\ (j \in Accepts[Feed] => <<j, Here>> \in brought')
    BY <1>6, TurnBrings
  <2>2. /\ Range(slot[Here].items) \subseteq Range(Append(slot[Here].items, j))
        /\ j \in Range(Append(slot[Here].items, j))
    <3>1. slot[Here].items \in Seq(Items)
      BY <2>1 DEF FeedTypeOK, SlotRecords
    <3>2. ASSUME NEW s \in Seq(Items)
          PROVE  Range(s) \subseteq Range(Append(s, j)) /\ j \in Range(Append(s, j))
      <4>1. \A n \in 1..Len(s) : n \in 1..Len(Append(s, j)) /\ Append(s, j)[n] = s[n]
        OBVIOUS
      <4>2. Len(s) + 1 \in 1..Len(Append(s, j)) /\ Append(s, j)[Len(s) + 1] = j
        OBVIOUS
      <4> QED BY <4>1, <4>2 DEF Range
    <3> QED BY <3>1, <3>2
  <2>3. ASSUME NEW i \in Items, NEW f \in FeedNames, Placed(i, f) PROVE Placed(i, f)'
    <3>1. PICK b \in Batches : /\ b[1] = f /\ <<i, b>> \in brought
                               /\ i \in Range(slot[b].items) \/ slot[b].failed
      BY <2>3 DEF Placed
    <3>2. i \in Range(slot'[b].items) \/ slot'[b].failed
      BY <3>1, <2>1, <2>2
    <3> QED BY <3>1, <3>2, <2>b DEF Placed
  <2>4. ASSUME NEW f \in FeedNames, f = Feed, j \in Accepts[f] PROVE Placed(j, f)'
    <3>1. Here[1] = f
      BY <2>4 DEF Here
    <3>2. PICK b \in Batches : b = Here
      BY <2>1
    <3>3. j \in Range(slot'[b].items) \/ slot'[b].failed
      BY <3>2, <2>1, <2>2, <2>4
    <3> QED BY <3>1, <3>2, <3>3, <2>4, <2>b DEF Placed
  <2>5. ASSUME NEW i \in Items, NEW f \in FeedNames, i \in Accepts[f], Past(i, f)'
        PROVE  Past(i, f) \/ (i = j /\ f = Feed)
    <3>1. CASE task' = [task EXCEPT ![j] = "rotating"] /\ turn' = turn
      <4>1. task'[i] = IF i = j THEN "rotating" ELSE task[i]
        BY <3>1 DEF FeedTypeOK
      <4> QED BY <2>1, <2>5, <3>1, <4>1 DEF Busy, Feed
    <3>2. CASE task' = task /\ turn' = turn + 1
      <4>1. i # j => task[i] \notin Busy
        BY <2>1 DEF LoopFits
      <4>2. CASE i = j /\ \E k \in 1..(turn' - 1) : Feeds[k] = f
        <5>1. PICK k \in 1..turn : Feeds[k] = f
          BY <3>2, <4>2 DEF FeedTypeOK
        <5>2. k = turn \/ k \in 1..(turn - 1)
          BY DEF FeedTypeOK
        <5> QED BY <2>1, <4>2, <5>1, <5>2 DEF Busy, Feed
      <4> QED BY <2>1, <2>5, <3>2, <4>1, <4>2 DEF Busy
    <3> QED BY <2>1, <3>1, <3>2
  <2> HIDE DEF Past
  <2>6. ASSUME NEW i \in Items, NEW f \in FeedNames, i \in Accepts[f], Past(i, f)'
        PROVE  Placed(i, f)'
    BY <2>3, <2>4, <2>5, <2>6, <1>1
  <2> QED BY <2>6, <1>2
<1>7. ASSUME NEW t \in pending, CloserStep(t) PROVE ItemsArePlaced'
  <2>1. /\ task' = task /\ turn' = turn /\ brought' = brought
        /\ \A b \in Batches : slot'[b].items = slot[b].items /\ (slot[b].failed => slot'[b].failed)
    BY <1>7, CloserDoes, OthersBringNothing
  <2>2. \A i, f : Past(i, f)' <=> Past(i, f)
    BY <2>1
  <2> HIDE DEF Past
  <2>3. ASSUME NEW i \in Items, NEW f \in FeedNames, i \in Accepts[f], Past(i, f)'
        PROVE  Placed(i, f)'
    BY <2>1, <2>2, <2>3, <1>1, <1>3
  <2> QED BY <2>3, <1>2
<1> QED BY <1>4, <1>5, <1>6, <1>7, AnyStep

LEMMA FilesKept ==
    ASSUME FeedInv, Next
    PROVE  FilesHaveTheirItems'
<1> USE DEF FeedInv
<1>1. \A b \in Batches : \A i \in Range(slot[b].items) : OnFile(slot[b], i)
  BY DEF FilesHaveTheirItems, OnFile
<1> SUFFICES ASSUME NEW b \in Batches, NEW i \in Range(slot'[b].items) PROVE OnFile(slot'[b], i)
  BY DEF FilesHaveTheirItems, OnFile
<1>2. CASE QuietStep
  BY <1>1, <1>2, QuietKeeps
<1>3. CASE ScheduleStep
  <2>1. slot'[b].items = slot[b].items /\ slot'[b].file = slot[b].file /\ slot'[b].held = slot[b].held
    BY <1>3, ScheduleDoes
  <2> QED BY <1>1, <2>1 DEF OnFile
<1>4. ASSUME NEW j \in Items, TurnStep(j) PROVE OnFile(slot'[b], i)
  <2>1. CASE b # Here
    BY <1>1, <1>4, <2>1, TurnDoes
  <2>2. CASE b = Here
    <3>1. /\ slot'[b].items = slot[b].items \/ slot'[b].items = Append(slot[b].items, j)
          /\ \A k : OnFile(slot[b], k) \/ (slot'[b].items # slot[b].items /\ k = j)
                        => OnFile(slot'[b], k)
      BY <1>4, <2>2, TurnDoes
    <3>2. CASE slot'[b].items = slot[b].items
      BY <1>1, <3>1, <3>2
    <3>3. CASE slot'[b].items = Append(slot[b].items, j)
      <4>1. slot[b].items \in Seq(Items)
        BY DEF FeedTypeOK, SlotRecords
      <4>2. ASSUME NEW s \in Seq(Items)
            PROVE  Append(s, j) # s /\ Range(Append(s, j)) \subseteq Range(s) \cup {j}
        <5>1. \A n \in 1..Len(Append(s, j)) :
                 (n \in 1..Len(s) /\ Append(s, j)[n] = s[n]) \/ Append(s, j)[n] = j
          OBVIOUS
        <5>2. Len(Append(s, j)) = Len(s) + 1
          OBVIOUS
        <5> QED BY <5>1, <5>2 DEF Range
      <4> QED BY <1>1, <3>1, <3>3, <4>1, <4>2
    <3> QED BY <3>1, <3>2, <3>3
  <2> QED BY <2>1, <2>2
<1>5. ASSUME NEW t \in pending, CloserStep(t) PROVE OnFile(slot'[b], i)
  <2>1. slot'[b].items = slot[b].items /\ \A k : OnFile(slot[b], k) => OnFile(slot'[b], k)
    <3>1. CASE b = t[1]
      BY <1>5, <3>1, CloserDoes
    <3>2. CASE b # t[1]
      BY <1>5, <3>2, CloserDoes
    <3> QED BY <3>1, <3>2
  <2> QED BY <1>1, <2>1
<1> QED BY <1>2, <1>3, <1>4, <1>5, AnyStep

LEMMA StoredKept ==
    ASSUME FeedInv, Next
    PROVE  StoredHaveTheirItems'
<1> USE DEF FeedInv
<1>1. ASSUME NEW b \in Batches, b[1] \notin unrotated,
             slot[b].closed, slot[b].storing \/ slot[b].success, NEW i \in Range(slot[b].items)
      PROVE  Has(slot[b].stored, i)
  BY <1>1 DEF StoredHaveTheirItems
<1>2. unrotated \subseteq unrotated'
  BY AnyStep, QuietKeeps, TurnDoes, CloserDoes DEF ScheduleStep, CloseNext, Rotate, RotateFails
<1> SUFFICES ASSUME NEW b \in Batches, b[1] \notin unrotated',
                    slot'[b].closed, slot'[b].storing \/ slot'[b].success,
                    NEW i \in Range(slot'[b].items)
             PROVE  Has(slot'[b].stored, i)
  BY DEF StoredHaveTheirItems
<1>3. b[1] \notin unrotated /\ b[1] \in FeedNames
  BY <1>2 DEF Batches
<1>4. CASE QuietStep
  BY <1>1, <1>3, <1>4, QuietKeeps
<1>5. CASE ScheduleStep
  <2>1. /\ slot'[b].items = slot[b].items /\ slot'[b].closed = slot[b].closed
        /\ slot'[b].storing = slot[b].storing /\ slot'[b].stored = slot[b].stored
        /\ slot'[b].success = slot[b].success
    BY <1>5, ScheduleDoes
  <2> QED BY <1>1, <1>3, <2>1
<1>6. ASSUME NEW j \in Items, TurnStep(j) PROVE Has(slot'[b].stored, i)
  <2>1. CASE b # Here
    BY <1>1, <1>3, <1>6, <2>1, TurnDoes
  <2>2. CASE b = Here
    <3>1. /\ lock = j /\ Feed \in FeedNames /\ turn <= Len(Feeds)
          /\ slot'[b].closed = slot[b].closed
      BY <1>6, <2>2, TurnDoes
    <3>2. phase = "open" /\ fresh \subseteq {Feeds[k] : k \in 1..(turn - 1)}
      BY <3>1, FeedAssumption DEF LoopFits
    <3>3. Feed \notin fresh
      <4>1. \A k \in 1..(turn - 1) : k \in 1..Len(Feeds) /\ k # turn /\ turn \in 1..Len(Feeds)
        BY <3>1, FeedAssumption DEF FeedTypeOK
      <4>2. DOMAIN Feeds = 1..Len(Feeds)
        BY FeedAssumption
      <4>3. \A k \in 1..(turn - 1) : Feeds[k] # Feeds[turn]
        BY <4>1, <4>2, FeedAssumption DEF IsInjective
      <4> QED BY <3>2, <4>3 DEF Feed
    <3>4. slot[b].closes = 0
      BY <1>3, <2>2, <3>1, <3>2, <3>3 DEF OpenAreOpen, Here
    <3>5. ~slot[b].closed
      <4>1. slot[b].closed => slot[b].closes > 0
        BY DEF ClosesAreKept
      <4> QED BY <3>4, <4>1
    <3> QED BY <3>1, <3>5
  <2> QED BY <2>1, <2>2
<1>7. ASSUME NEW t \in pending, CloserStep(t) PROVE Has(slot'[b].stored, i)
  <2>1. CASE b # t[1]
    BY <1>1, <1>3, <1>7, <2>1, CloserDoes
  <2>2. CASE b = t[1]
    <3>1. slot'[b].items = slot[b].items /\ CloserMakes(t, slot[b], slot'[b])
      BY <1>7, <2>2, CloserDoes
    <3>2. OnFile(slot[b], i)
      BY <3>1 DEF FilesHaveTheirItems, OnFile
    <3>3. slot[b].storing => slot[b].closed
      BY DEF ClosesAreKept
    <3>4. ~slot[b].closed => ~slot[b].success /\ ~slot[b].storing
      BY <3>3 DEF ClosesAreKept
    <3> DEFINE s == slot[b]
               e == slot'[b]
    <3> HIDE DEF s, e
    <3> QED BY <1>1, <1>3, <3>1, <3>2, <3>3, <3>4 DEF CloserMakes
  <2> QED BY <2>1, <2>2
<1> QED BY <1>4, <1>5, <1>6, <1>7, AnyStep

-----------------------------------------------------------------------------
(* The theorems *)

LEMMA FeedInvHolds == Spec => []FeedInv
<1>1. FeedInv /\ [Next]_vars => FeedInv'
  <2> SUFFICES ASSUME FeedInv, [Next]_vars PROVE FeedInv'
    OBVIOUS
  <2>1. CASE Next
    BY <2>1, TypeKept, LoopKept, PendingKept, ClosesKept, CountKept, OrderKept, FullKept, OpenKept,
       PlacedKept, FilesKept, StoredKept DEF FeedInv
  <2>2. CASE UNCHANGED vars
    <3>1. FeedTypeOK' /\ LoopFits' /\ PendingFits' /\ ClosesAreKept' /\ SlotsAreCounted'
      BY <2>2 DEF vars, FeedInv, FeedTypeOK, LoopFits, Here, Feed, Full, PendingFits, ClosesAreKept,
          SlotsAreCounted
    <3>2. BatchesInOrder' /\ ClosedAreFull' /\ OpenAreOpen'
      BY <2>2 DEF vars, FeedInv, Here, Feed, Full, BatchesInOrder, BehindAndAhead, GivenToTasks,
          ClosedAreFull, OpenAreOpen
    <3>3. ItemsArePlaced' /\ FilesHaveTheirItems' /\ StoredHaveTheirItems'
      BY <2>2 DEF vars, FeedInv, ItemsArePlaced, Placed, FilesHaveTheirItems, StoredHaveTheirItems
    <3> QED BY <3>1, <3>2, <3>3 DEF FeedInv
  <2> QED BY <2>1, <2>2
<1> QED BY <1>1, InitHolds, PTL DEF Spec

\* The slots, the lock and the tasks of the exporter keep their types, and a feed never has more
\* batches than there are items and one more.
THEOREM FeedsTypeCorrect == Spec => [](FeedTypeOK /\ SlotsAreCounted)
<1>1. FeedInv => FeedTypeOK /\ SlotsAreCounted
  BY DEF FeedInv
<1> QED BY <1>1, FeedInvHolds, PTL

\* Once every batch has been given to a task and none is left, each has been told.
LEMMA CompleteAtTheEnd == FeedInv => ClosedIsComplete
<1> SUFFICES ASSUME FeedInv PROVE ClosedIsComplete
  OBVIOUS
<1> USE DEF FeedInv
<1> DEFINE stores == {b \in Batches : slot[b].storing}
           first == [b \in stores |-> <<b, 1>>]
<1>1. Cardinality(stores) <= StorageConcurrency
  <2>1. first \in Injection(stores, pending)
    <3>1. \A b \in stores : <<b, 1>> \in pending
      BY DEF ClosesAreKept
    <3>2. \A b, c \in stores : first[b] = first[c] => b = c
      OBVIOUS
    <3> QED BY <3>1, <3>2 DEF Injection, IsInjective
  <2>2. IsFiniteSet(stores) /\ Cardinality(stores) <= Cardinality(pending)
    BY <2>1, FS_Injection DEF PendingFits
  <2> QED BY <2>2, FeedAssumption, FS_CardinalityType DEF PendingFits
<1>2. \A b \in Batches : slot[b].told <= 1
  BY DEF ClosesAreKept
<1>3. ASSUME phase = "closed", NEW b \in Batches
      PROVE  ~slot[b].storing /\ (slot[b].items # <<>> \/ slot[b].failed => slot[b].told = 1)
  <2>1. <<b, 1>> \notin pending
    BY <1>3 DEF BatchesInOrder
  <2>2. ASSUME slot[b].items # <<>> \/ slot[b].failed PROVE slot[b].closes > 0
    <3>1. b[1] \in FeedNames /\ b[2] \in Nat /\ b = <<b[1], b[2]>> /\ slots[b[1]] \in Nat
      BY FeedAssumption, FS_CardinalityType DEF Batches, BatchIds, FeedTypeOK
    <3>2. b[2] <= slots[b[1]]
      BY <2>2, <3>1 DEF BatchesInOrder, BehindAndAhead
    <3>3. CASE b[2] = slots[b[1]]
      <4>1. PICK k \in 1..Len(Feeds) : Feeds[k] = b[1]
        <5>1. DOMAIN Feeds = 1..Len(Feeds)
          BY FeedAssumption
        <5> QED BY <3>1, <5>1 DEF FeedNames, Range
      <4>2. k \in 1..(turn - 1)
        BY <1>3, FeedAssumption DEF BatchesInOrder, FeedTypeOK
      <4>3. slot[<<Feeds[k], slots[Feeds[k]]>>].closes > 0
        BY <1>3, <4>2 DEF BatchesInOrder, GivenToTasks
      <4> QED BY <3>1, <3>3, <4>1, <4>3
    <3>4. CASE b[2] < slots[b[1]]
      BY <3>4 DEF BatchesInOrder, BehindAndAhead
    <3> QED BY <3>1, <3>2, <3>3, <3>4
  <2> QED BY <2>1, <2>2 DEF ClosesAreKept
<1> QED BY <1>1, <1>2, <1>3 DEF ClosedIsComplete

\* feed_exporter_closed is sent after every upload, feed_slot_closed once for each slot that has
\* something to tell, and the uploads keep to FEED_STORAGE_CONCURRENCY (_schedule_close,
\* _close_slot, close_spider).
THEOREM FeedsCloseCompletely == Spec => []ClosedIsComplete
BY CompleteAtTheEnd, FeedInvHolds, PTL

\* At feed_exporter_closed an item that went through is, for each feed that accepts it and got its
\* next slots, in what a storage was given of the batch the item came to, or that batch counts as
\* failed: the failure of another batch of the feed does not do.
THEOREM ItemsAreStoredOrReported == Spec => []StoredOrReported
<1>1. ASSUME FeedInv, phase = "closed",
             NEW f \in FeedNames \ unrotated, NEW i \in Accepts[f], task[i] = "done"
      PROVE  \E b \in Batches :
                /\ b[1] = f /\ <<i, b>> \in brought
                /\ \/ slot[b].success /\ i \in Range(Outline(slot[b].stored))
                   \/ slot[b].failed
  <2> USE <1>1 DEF FeedInv
  <2>1. i \in Items
    BY DEF Accepts
  <2>2. PICK b \in Batches : /\ b[1] = f /\ <<i, b>> \in brought
                             /\ i \in Range(slot[b].items) \/ slot[b].failed
    BY <2>1 DEF ItemsArePlaced, Placed
  <2>3. CASE ~slot[b].failed
    <3>1. slot[b].items # <<>>
      BY <2>2, <2>3 DEF Range
    <3>2. <<b, 1>> \notin pending
      BY DEF BatchesInOrder
    <3>3. slot[b].told = 1
      <4>1. ClosedIsComplete
        BY CompleteAtTheEnd
      <4> QED BY <4>1, <3>1 DEF ClosedIsComplete
    <3>4. slot[b].success /\ slot[b].closed
      BY <2>3, <3>3 DEF ClosesAreKept
    <3>5. Has(slot[b].stored, i)
      BY <2>2, <2>3, <3>4 DEF StoredHaveTheirItems
    <3>6. i \in Range(Outline(slot[b].stored))
      BY <3>5 DEF Has, Outline, Range
    <3> QED BY <2>2, <3>4, <3>6
  <2> QED BY <2>2, <2>3
<1>2. FeedInv => StoredOrReported
  BY <1>1 DEF StoredOrReported
<1> QED BY <1>2, FeedInvHolds, PTL

-----------------------------------------------------------------------------
(* Documents.  Their reference is computed along the items. *)

\* What stands between two items.
Comma(format, n) == IF n > 1 /\ format = "json" THEN <<Separator>> ELSE <<>>

Body(format, items) ==
    LET body[n \in 0..Len(items)] ==
            IF n = 0 THEN <<>>
            ELSE body[n - 1] \o (IF n > 1 /\ format = "json" THEN <<Separator>> ELSE <<>>) \o <<items[n]>>
    IN  body[Len(items)]

\* The outline of a document that has these items and no end.
Begun(format, items) ==
    Outline(Opening(format))
      \o (IF format = "csv" /\ items # <<>> THEN <<"headers">> ELSE <<>>) \o Body(format, items)

LEMMA DocumentIs ==
    ASSUME NEW format, NEW items
    PROVE  Document(format, items) = Begun(format, items) \o Outline(Closing(format))
BY DEF Document, Begun, Body

\* The function by which the body is computed exists.
Computes(f, format, items, S) ==
    /\ f \in [0..Len(items) -> Seq(S)]
    /\ f[0] = <<>> /\ f[Len(items)] = Body(format, items)
    /\ \A n \in 1..Len(items) : f[n] = f[n - 1] \o Comma(format, n) \o <<items[n]>>

LEMMA BodyIs ==
    ASSUME NEW format, NEW S, Separator \in S, NEW items \in Seq(S)
    PROVE  \E f : Computes(f, format, items, S)
<1> DEFINE len == Len(items)
           all == Seq(S)
           Body1(f) == [n \in 0..len |-> IF n = 0 THEN <<>>
                            ELSE f[n - 1] \o (IF n > 1 /\ format = "json" THEN <<Separator>> ELSE <<>>)
                                   \o <<items[n]>>]
           body == CHOOSE f : f = Body1(f)
           step == [p \in (1..len) \X all |-> p[2] \o Comma(format, p[1]) \o <<items[p[1]]>>]
<1>1. len \in Nat /\ <<>> \in all
  OBVIOUS
<1>2. \A n \in 1..len : \A x \in all : x \o Comma(format, n) \o <<items[n]>> \in all
  <2> SUFFICES ASSUME NEW n \in 1..len, NEW x \in all
               PROVE  x \o Comma(format, n) \o <<items[n]>> \in all
    OBVIOUS
  <2>1. Comma(format, n) \in all /\ <<items[n]>> \in all
    BY DEF Comma
  <2>2. x \o Comma(format, n) \in all
    BY <2>1, ConcatProperties
  <2> QED BY <2>1, <2>2, ConcatProperties
<1>3. Body(format, items) = body[len]
  BY DEF Body
<1> HIDE DEF len, all
<1>4. PICK f \in [0..len -> all] :
         f[0] = <<>> /\ \A n \in 1..len : f[n] = f[n - 1] \o Comma(format, n) \o <<items[n]>>
  <2> HIDE DEF body
  <2>1. \A n \in 1..len : \A x \in all : step[<<n, x>>] = x \o Comma(format, n) \o <<items[n]>>
    OBVIOUS
  <2>2. step \in [(1..len) \X all -> all]
    BY <1>2
  <2> HIDE DEF step
  <2>3. PICK f \in [0..len -> all] : Along(f, len, <<>>, step)
    BY <1>1, <2>2, Recursion
  <2>4. \A n \in 1..len : f[n - 1] \in all
    BY <1>1
  <2>5. f[0] = <<>> /\ \A n \in 1..len : f[n] = step[<<n, f[n - 1]>>]
    BY <2>3 DEF Along
  <2>6. \A n \in 1..len : f[n] = f[n - 1] \o Comma(format, n) \o <<items[n]>>
    BY <2>1, <2>4, <2>5
  <2> QED BY <2>3, <2>5, <2>6
<1>5. f = Body1(f)
  <2> HIDE DEF body, step
  <2>1. \A n \in 0..len : n = 0 \/ n \in 1..len
    BY <1>1
  <2> QED BY <1>4, <2>1 DEF Comma
<1>6. body = Body1(body)
  BY <1>5
<1> HIDE DEF body, step
<1>7. body[0] = <<>> /\ \A n \in 1..len : body[n] = body[n - 1] \o Comma(format, n) \o <<items[n]>>
  <2>1. 0 \in 0..len /\ \A n \in 1..len : n \in 0..len /\ n # 0
    BY <1>1
  <2> QED BY <1>6, <2>1 DEF Comma
<1>8. \A n \in 0..len : body[n] = f[n]
  <2> DEFINE T == {n \in 0..len : body[n] = f[n]}
  <2>1. 0 \in T
    BY <1>1, <1>4, <1>7
  <2>2. ASSUME NEW n \in 1..len, n - 1 \in T PROVE n \in T
    <3>1. n \in 0..len /\ body[n - 1] = f[n - 1]
      BY <1>1, <2>2
    <3>2. body[n] = body[n - 1] \o Comma(format, n) \o <<items[n]>>
      BY <1>7
    <3>3. f[n] = f[n - 1] \o Comma(format, n) \o <<items[n]>>
      BY <1>4
    <3> QED BY <3>1, <3>2, <3>3
  <2>3. len \in Int
    BY <1>1
  <2> HIDE DEF T
  <2>4. \A n \in 0..len : n \in T
    BY <2>1, <2>2, <2>3, UpTo
  <2> QED BY <2>4 DEF T
<1>9. f[len] = Body(format, items)
  BY <1>1, <1>3, <1>8
<1> QED BY <1>4, <1>9 DEF len, all, Computes

LEMMA BodyGrows ==
    ASSUME NEW format, NEW S, Separator \in S, NEW items \in Seq(S), NEW i \in S
    PROVE  /\ Body(format, items) \in Seq(S) /\ Body(format, <<>>) = <<>>
           /\ Body(format, Append(items, i)) =
                  Body(format, items) \o Comma(format, Len(items) + 1) \o <<i>>
<1> DEFINE len == Len(items)
           more == Append(items, i)
<1>1. /\ len \in Nat /\ more \in Seq(S) /\ Len(more) = len + 1 /\ more[len + 1] = i
      /\ \A n \in 1..len : more[n] = items[n]
  OBVIOUS
<1>2. PICK f : Computes(f, format, items, S)
  BY BodyIs
<1>3. PICK g : Computes(g, format, more, S)
  BY <1>1, BodyIs
<1>8. /\ f \in [0..len -> Seq(S)] /\ f[0] = <<>> /\ f[len] = Body(format, items)
      /\ \A n \in 1..len : f[n] = f[n - 1] \o Comma(format, n) \o <<items[n]>>
  BY <1>2 DEF Computes
<1>9. /\ g[0] = <<>> /\ g[len + 1] = Body(format, more)
      /\ \A n \in 1..(len + 1) : g[n] = g[n - 1] \o Comma(format, n) \o <<more[n]>>
  <2> HIDE DEF more
  <2> QED BY <1>1, <1>3 DEF Computes
<1> HIDE DEF len, more
<1>4. \A n \in 0..len : g[n] = f[n]
  <2> DEFINE T == {n \in 0..len : g[n] = f[n]}
  <2>1. 0 \in T
    BY <1>1, <1>8, <1>9
  <2>2. ASSUME NEW n \in 1..len, n - 1 \in T PROVE n \in T
    <3>1. n \in 1..(len + 1) /\ n \in 0..len
      BY <1>1
    <3>2. g[n - 1] = f[n - 1]
      BY <2>2
    <3>3. g[n] = g[n - 1] \o Comma(format, n) \o <<items[n]>>
      BY <1>1, <1>9, <3>1
    <3>4. f[n] = f[n - 1] \o Comma(format, n) \o <<items[n]>>
      BY <1>8
    <3> QED BY <3>1, <3>2, <3>3, <3>4
  <2>3. len \in Int
    BY <1>1
  <2> HIDE DEF T
  <2>4. \A n \in 0..len : n \in T
    BY <2>1, <2>2, <2>3, UpTo
  <2> QED BY <2>4 DEF T
<1>5. g[len] = Body(format, items) /\ Body(format, items) \in Seq(S)
  BY <1>1, <1>8, <1>4
<1>6. Body(format, more) = Body(format, items) \o Comma(format, len + 1) \o <<i>>
  <2>1. len + 1 \in 1..(len + 1) /\ (len + 1) - 1 = len
    BY <1>1
  <2> QED BY <1>1, <1>9, <1>5, <2>1
<1>7. Body(format, <<>>) = <<>>
  <2>1. Len(<<>>) = 0 /\ <<>> \in Seq(S)
    OBVIOUS
  <2>2. PICK f0 : Computes(f0, format, <<>>, S)
    BY <2>1, BodyIs
  <2> QED BY <2>1, <2>2 DEF Computes
<1> QED BY <1>5, <1>6, <1>7 DEF len, more

-----------------------------------------------------------------------------
(* Outlines *)

Word(m) == IF m.mark = "item" THEN m.item ELSE m.mark
Words(S) == {Word(m) : m \in S}

LEMMA OutlineIs ==
    ASSUME NEW S, NEW a \in Seq(S)
    PROVE  /\ Outline(a) \in Seq(Words(S)) /\ Len(Outline(a)) = Len(a)
           /\ \A n \in 1..Len(a) : Outline(a)[n] = Word(a[n])
<1>1. Len(a) \in Nat /\ DOMAIN a = 1..Len(a) /\ \A n \in 1..Len(a) : a[n] \in S
  OBVIOUS
<1>2. Outline(a) = [n \in 1..Len(a) |-> Word(a[n])]
  BY <1>1 DEF Outline, Word
<1>3. \A n \in 1..Len(a) : Word(a[n]) \in Words(S)
  BY <1>1 DEF Words
<1> QED BY <1>1, <1>2, <1>3

\* What is written behind is outlined behind.
LEMMA OutlineConcat ==
    ASSUME NEW S, NEW a \in Seq(S), NEW b \in Seq(S)
    PROVE  Outline(a \o b) = Outline(a) \o Outline(b)
<1> DEFINE ab == a \o b
           o == Outline(a)
           p == Outline(b)
           op == Outline(ab)
           W == Words(S)
<1>1. /\ ab \in Seq(S) /\ Len(a) \in Nat /\ Len(b) \in Nat /\ Len(ab) = Len(a) + Len(b)
      /\ \A n \in 1..(Len(a) + Len(b)) : ab[n] = IF n <= Len(a) THEN a[n] ELSE b[n - Len(a)]
  BY ConcatProperties
<1> HIDE DEF ab
<1>2. /\ o \in Seq(W) /\ Len(o) = Len(a) /\ \A n \in 1..Len(a) : o[n] = Word(a[n])
      /\ p \in Seq(W) /\ Len(p) = Len(b) /\ \A n \in 1..Len(b) : p[n] = Word(b[n])
      /\ op \in Seq(W) /\ Len(op) = Len(ab) /\ \A n \in 1..Len(ab) : op[n] = Word(ab[n])
  BY <1>1, OutlineIs
<1> HIDE DEF o, p, op, W
<1>3. /\ o \o p \in Seq(W) /\ Len(o \o p) = Len(a) + Len(b)
      /\ \A n \in 1..(Len(a) + Len(b)) :
            (o \o p)[n] = IF n <= Len(a) THEN o[n] ELSE p[n - Len(a)]
  <2>1. o \in Seq(W) /\ p \in Seq(W)
    BY <1>2
  <2>2. /\ o \o p \in Seq(W) /\ Len(o \o p) = Len(o) + Len(p)
        /\ \A n \in 1..(Len(o) + Len(p)) :
              (o \o p)[n] = IF n <= Len(o) THEN o[n] ELSE p[n - Len(o)]
    BY <2>1, ConcatProperties
  <2> QED BY <1>2, <2>2
<1>4. \A n \in 1..(Len(a) + Len(b)) : op[n] = (o \o p)[n]
  <2> SUFFICES ASSUME NEW n \in 1..(Len(a) + Len(b)) PROVE op[n] = (o \o p)[n]
    OBVIOUS
  <2>1. CASE n <= Len(a)
    BY <1>1, <1>2, <1>3, <2>1
  <2>2. CASE ~(n <= Len(a))
    <3>1. n - Len(a) \in 1..Len(b)
      BY <1>1, <2>2
    <3> QED BY <1>1, <1>2, <1>3, <2>2, <3>1
  <2> QED BY <2>1, <2>2
<1>5. op = o \o p
  BY <1>1, <1>2, <1>3, <1>4, SeqEqual
<1> QED BY <1>5 DEF o, p, op, ab

\* The words of the outlines of feeds.
Vocabulary == Items \cup {NoItem} \cup MarkNames

LEMMA FileWords ==
    ASSUME NEW file \in Seq(Marks)
    PROVE  Outline(file) \in Seq(Vocabulary)
<1>1. \A m \in Marks : Word(m) \in Vocabulary
  BY DEF Marks, Word, Vocabulary
<1>2. Words(Marks) \subseteq Vocabulary
  BY <1>1 DEF Words
<1>3. Outline(file) \in Seq(Words(Marks))
  BY OutlineIs
<1> QED BY <1>2, <1>3, SeqMonotonic

LEMMA ShortOutlines ==
    /\ Outline(<<>>) = <<>>
    /\ \A x : Outline(<<x>>) = <<Word(x)>>
    /\ \A x, y : Outline(<<x, y>>) = <<Word(x), Word(y)>>
BY DEF Outline, Word

LEMMA ShortConcat ==
    \A x, y : /\ <<x>> \o <<y>> = <<x, y>>
              /\ <<x>> \o <<>> \o <<y>> = <<x, y>>
              /\ <<>> \o <<x>> \o <<y>> = <<x, y>>
              /\ <<>> \o <<x>> = <<x>> /\ <<>> \o <<>> \o <<x>> = <<x>>
<1> SUFFICES ASSUME NEW x, NEW y
             PROVE  /\ <<x>> \o <<y>> = <<x, y>>
                    /\ <<x>> \o <<>> \o <<y>> = <<x, y>>
                    /\ <<>> \o <<x>> \o <<y>> = <<x, y>>
                    /\ <<>> \o <<x>> = <<x>> /\ <<>> \o <<>> \o <<x>> = <<x>>
  OBVIOUS
<1>1. <<x>> \in Seq({x, y}) /\ <<>> \in Seq({x, y})
  OBVIOUS
<1>2. <<x>> \o <<>> = <<x>> /\ <<>> \o <<x>> = <<x>> /\ <<>> \o <<>> = <<>>
  BY <1>1, ConcatEmptySeq
<1>3. <<x>> \o <<y>> = <<x, y>>
  <2> DEFINE a == <<x>>
             b == <<y>>
             ab == <<x, y>>
             S == {x, y}
  <2>1. /\ a \in Seq(S) /\ Len(a) = 1 /\ a[1] = x
        /\ b \in Seq(S) /\ Len(b) = 1 /\ b[1] = y
        /\ ab \in Seq(S) /\ Len(ab) = 2 /\ ab[1] = x /\ ab[2] = y
    OBVIOUS
  <2> HIDE DEF a, b, ab, S
  <2>2. a \o b \in Seq(S) /\ Len(a \o b) = 2 /\ (a \o b)[1] = x /\ (a \o b)[2] = y
    BY <2>1, ConcatProperties
  <2>3. \A n \in 1..Len(a \o b) : (a \o b)[n] = ab[n]
    BY <2>1, <2>2
  <2>4. a \o b = ab
    BY <2>1, <2>2, <2>3, SeqEqual
  <2> QED BY <2>4 DEF a, b, ab
<1> QED BY <1>2, <1>3

LEMMA WordsAre ==
    /\ \A name : name # "item" => Word(Mark(name)) = name
    /\ \A columns : Word(Headers(columns)) = "headers"
    /\ \A i, fields, empty : Word(Written(i, fields, empty)) = i
BY DEF Word, Mark, Headers, Written

\* The first item of a CSV file brings the headers.
FirstHeaders(format, items) == IF format = "csv" /\ items = <<>> THEN <<"headers">> ELSE <<>>

LEMMA EntryOutline ==
    ASSUME NEW f, NEW format, NEW i, NEW items \in Seq(Items)
    PROVE  Outline(Entry(f, format, i, items)) =
               FirstHeaders(format, items) \o Comma(format, Len(items) + 1) \o <<i>>
<1> USE DEF FirstHeaders
<1>1. items = <<>> <=> ~(Len(items) + 1 > 1)
  BY EmptySeq
<1>2. Word(Mark(Separator)) = Separator
  <2>1. Separator # "item"
    BY Zenon DEF Separator
  <2> QED BY <2>1, WordsAre
<1>3. CASE format = "csv"
  <2> DEFINE columns == Columns(f, IF items = <<>> THEN i ELSE items[1])
             h == Headers(columns)
             w == Written(i, columns, TRUE)
  <2>1. Comma(format, Len(items) + 1) = <<>>
    BY <1>3 DEF Comma
  <2>2. Entry(f, format, i, items) = (IF items = <<>> THEN <<h>> ELSE <<>>) \o <<w>>
    BY <1>3 DEF Entry
  <2>3. Word(h) = "headers" /\ Word(w) = i
    BY WordsAre
  <2> HIDE DEF columns, h, w
  <2>4. CASE items = <<>>
    <3>1. Entry(f, format, i, items) = <<h, w>>
      BY <2>2, <2>4, ShortConcat
    <3>2. Outline(<<h, w>>) = <<"headers", i>>
      BY <2>3, ShortOutlines
    <3>3. <<"headers">> \o <<>> \o <<i>> = <<"headers", i>>
      BY ShortConcat
    <3> QED BY <1>3, <2>1, <2>4, <3>1, <3>2, <3>3
  <2>5. CASE items # <<>>
    <3>1. Entry(f, format, i, items) = <<w>>
      BY <2>2, <2>5, ShortConcat
    <3>2. Outline(<<w>>) = <<i>> /\ <<>> \o <<>> \o <<i>> = <<i>>
      BY <2>3, ShortOutlines, ShortConcat
    <3> QED BY <1>3, <2>1, <2>5, <3>1, <3>2
  <2> QED BY <2>4, <2>5
<1>4. CASE format # "csv"
  <2> DEFINE w == Written(i, FieldsOf(f, i), FALSE)
             m == Mark(Separator)
  <2>1. Word(w) = i /\ Word(m) = Separator
    BY <1>2, WordsAre
  <2>2. Entry(f, format, i, items) =
           IF format = "json" /\ items # <<>> THEN <<m, w>> ELSE <<w>>
    BY <1>4 DEF Entry
  <2>3. Comma(format, Len(items) + 1) =
           IF format = "json" /\ items # <<>> THEN <<Separator>> ELSE <<>>
    BY <1>1 DEF Comma
  <2> HIDE DEF w, m
  <2>4. CASE format = "json" /\ items # <<>>
    <3>1. Outline(<<m, w>>) = <<Separator, i>>
      BY <2>1, ShortOutlines
    <3>2. <<Separator, i>> = <<>> \o <<Separator>> \o <<i>>
      BY ShortConcat
    <3> QED BY <1>4, <2>2, <2>3, <2>4, <3>1, <3>2
  <2>5. CASE ~(format = "json" /\ items # <<>>)
    <3>1. <<i>> = <<>> \o <<>> \o <<i>>
      BY ShortConcat
    <3> QED BY <1>4, <2>1, <2>2, <2>3, <2>5, <3>1, ShortOutlines
  <2> QED BY <2>4, <2>5
<1> QED BY <1>3, <1>4

LEMMA BegunGrows ==
    ASSUME NEW f, NEW format, NEW i \in Items, NEW items \in Seq(Items)
    PROVE  /\ Begun(format, items) \in Seq(Vocabulary)
           /\ Begun(format, <<>>) = Outline(Opening(format))
           /\ Begun(format, Append(items, i)) =
                  Begun(format, items) \o Outline(Entry(f, format, i, items))
<1> DEFINE V == Seq(Vocabulary)
           o == Outline(Opening(format))
           b == Body(format, items)
           c == Comma(format, Len(items) + 1)
           more == Append(items, i)
           H(s) == IF format = "csv" /\ s # <<>> THEN <<"headers">> ELSE <<>>
<1>1. Items \subseteq Vocabulary /\ Separator \in Vocabulary /\ "headers" \in Vocabulary
  BY DEF Vocabulary, MarkNames
<1>2. items \in Seq(Vocabulary) /\ i \in Vocabulary
  <2>1. Seq(Items) \subseteq Seq(Vocabulary)
    BY ONLY <1>1, SeqMonotonic, Zenon
  <2>2. i \in Vocabulary
    BY ONLY <1>1, i \in Items
  <2> QED BY ONLY items \in Seq(Items), <2>1, <2>2, Zenon
<1>3. /\ b \in V /\ Body(format, <<>>) = <<>>
      /\ Body(format, more) = b \o c \o <<i>>
  BY <1>1, <1>2, BodyGrows, SMTT(30)
<1>4. o \in V
  BY FormatMarks, FileWords
<1>5. c \in V /\ <<i>> \in V /\ <<>> \in V /\ \A s : H(s) \in V
  <2>1. \A x \in Vocabulary : <<x>> \in V
    OBVIOUS
  <2>2. <<>> \in V
    OBVIOUS
  <2> HIDE DEF V
  <2> QED BY <1>1, <1>2, <2>1, <2>2 DEF Comma
<1>6. more # <<>>
  <2>1. Len(more) = Len(items) + 1 /\ Len(items) \in Nat
    OBVIOUS
  <2> QED BY <2>1, EmptySeq
<1>7. Begun(format, items) = o \o H(items) \o b /\ Begun(format, more) = o \o H(more) \o (b \o c \o <<i>>)
  BY <1>3 DEF Begun
<1>8. Begun(format, <<>>) = o
  <2>1. Begun(format, <<>>) = o \o <<>> \o <<>>
    BY <1>3 DEF Begun
  <2> QED BY <1>4, <2>1, ConcatEmptySeq
<1>9. Outline(Entry(f, format, i, items)) =
         FirstHeaders(format, items) \o c \o <<i>>
  BY EntryOutline
<1>10. \A x, y \in V : x \o y \in V
  BY ConcatProperties
<1>11. \A x, y, z \in V : (x \o y) \o z = x \o (y \o z)
  BY ConcatAssociative
<1>12. \A x \in V : x \o <<>> = x /\ <<>> \o x = x
  BY ConcatEmptySeq
<1> HIDE DEF V, o, b, c, more
<1>13. CASE format = "csv" /\ items = <<>>
  <2>1. b = <<>> /\ H(items) = <<>> /\ H(more) = <<"headers">>
    BY <1>3, <1>6, <1>13 DEF b
  <2> HIDE DEF H
  <2> DEFINE h == <<"headers">>
  <2>2. h \in V
    BY <1>5, <2>1
  <2>3. Begun(format, items) = o
    BY <1>4, <1>7, <1>12, <2>1
  <2>4. Begun(format, more) = o \o h \o (c \o <<i>>)
    BY <1>5, <1>7, <1>12, <2>1
  <2>5. Outline(Entry(f, format, i, items)) = h \o c \o <<i>>
    BY <1>9, <1>13 DEF FirstHeaders
  <2> HIDE DEF h
  <2>6. o \o h \o (c \o <<i>>) = o \o (h \o (c \o <<i>>)) /\ h \o (c \o <<i>>) = h \o c \o <<i>>
    <3> DEFINE ci == c \o <<i>>
    <3>1. ci \in V
      BY <1>5, <1>10
    <3>2. h \o ci = (h \o c) \o <<i>>
      BY <1>5, <1>11, <2>2
    <3> HIDE DEF ci
    <3>3. (o \o h) \o ci = o \o (h \o ci)
      BY <1>4, <1>11, <2>2, <3>1
    <3> QED BY <3>2, <3>3 DEF ci
  <2>7. Begun(format, items) \in V
    BY <1>4, <2>3
  <2>8. Begun(format, more) = Begun(format, items) \o Outline(Entry(f, format, i, items))
    BY <2>3, <2>4, <2>5, <2>6
  <2> QED BY <1>8, <2>7, <2>8 DEF V, more, o
<1>14. CASE ~(format = "csv" /\ items = <<>>)
  <2>1. H(more) = H(items)
    BY <1>6, <1>14
  <2>2. Outline(Entry(f, format, i, items)) = c \o <<i>>
    BY <1>5, <1>9, <1>12, <1>14 DEF FirstHeaders
  <2>3. o \o H(items) \in V
    BY <1>4, <1>5, <1>10
  <2> HIDE DEF H
  <2> DEFINE p == o \o H(items)
  <2>4. Begun(format, more) = p \o ((b \o c) \o <<i>>) /\ Begun(format, items) = p \o b
    BY <1>7, <2>1
  <2> HIDE DEF p
  <2>5. p \in V
    BY <2>3 DEF p
  <2>6. (b \o c) \o <<i>> = b \o (c \o <<i>>) /\ c \o <<i>> \in V
    BY <1>3, <1>5, <1>10, <1>11
  <2>7. (p \o b) \o (c \o <<i>>) = p \o (b \o (c \o <<i>>))
    BY <1>3, <1>11, <2>5, <2>6
  <2>8. p \o b \in V
    BY <1>3, <1>10, <2>5
  <2> QED BY <1>8, <2>2, <2>4, <2>6, <2>7, <2>8 DEF V, more, o
<1> QED BY <1>13, <1>14

-----------------------------------------------------------------------------
(* What the exporters write *)

\* All that is written of a batch, let through or not.
Contents(s) == s.file \o s.held

\* Only plugins hold something back.
Tidy(f, s) == f \notin Compressed => s.held = <<>>

\* What StartExporting writes.
Start(format, s) == IF s.exporting THEN <<>> ELSE Opening(format)

LEMMA MarksConcat ==
    /\ <<>> \in Seq(Marks)
    /\ \A x, y \in Seq(Marks) : x \o y \in Seq(Marks)
    /\ \A x, y, z \in Seq(Marks) : (x \o y) \o z = x \o (y \o z)
    /\ \A x \in Seq(Marks) : x \o <<>> = x /\ <<>> \o x = x
BY EmptySeq, ConcatProperties, ConcatAssociative, ConcatEmptySeq

LEMMA WriteDoes ==
    ASSUME NEW f, NEW s \in SlotRecords, Tidy(f, s), NEW marks \in Seq(Marks)
    PROVE  /\ Contents(Write(f, s, marks)) = Contents(s) \o marks
           /\ Tidy(f, Write(f, s, marks))
<1> DEFINE w == Write(f, s, marks)
<1>1. s.file \in Seq(Marks) /\ s.held \in Seq(Marks)
  BY DEF SlotRecords
<1>2. CASE f \in Compressed
  <2>1. w.file = s.file /\ w.held = s.held \o marks
    BY <1>2 DEF Write, SlotRecords
  <2>2. (s.file \o s.held) \o marks = s.file \o (s.held \o marks)
    <3> DEFINE a == s.file
               b == s.held
    <3> HIDE DEF a, b
    <3>1. a \in Seq(Marks) /\ b \in Seq(Marks)
      BY <1>1 DEF a, b
    <3>2. (a \o b) \o marks = a \o (b \o marks)
      BY <3>1, MarksConcat
    <3> QED BY <3>2 DEF a, b
  <2> HIDE DEF w
  <2> QED BY <1>2, <2>1, <2>2 DEF Contents, Tidy, w
<1>3. CASE f \notin Compressed
  <2>1. w.file = s.file \o marks /\ w.held = s.held /\ s.held = <<>>
    BY <1>3 DEF Write, SlotRecords, Tidy
  <2>2. s.file \o marks \in Seq(Marks)
    BY <1>1, MarksConcat
  <2> HIDE DEF w
  <2> QED BY <1>1, <2>1, <2>2, MarksConcat DEF Contents, Tidy, w
<1> QED BY <1>2, <1>3

LEMMA ContentsAreMarks ==
    ASSUME NEW s \in SlotRecords
    PROVE  Contents(s) \in Seq(Marks)
BY MarksConcat DEF Contents, SlotRecords

LEMMA StartDoes ==
    ASSUME NEW f, NEW format, NEW s \in SlotRecords, Tidy(f, s)
    PROVE  /\ Start(format, s) \in Seq(Marks)
           /\ Contents(StartExporting(f, format, s)) = Contents(s) \o Start(format, s)
           /\ Tidy(f, StartExporting(f, format, s))
<1> DEFINE w == Write(f, s, Opening(format))
           e == StartExporting(f, format, s)
<1>1. Contents(s) \in Seq(Marks) /\ Opening(format) \in Seq(Marks)
  BY ContentsAreMarks, FormatMarks
<1>2. CASE s.exporting
  <2>1. e = s /\ Start(format, s) = <<>>
    BY <1>2 DEF StartExporting, Start
  <2> QED BY <1>1, <2>1, MarksConcat
<1>3. CASE ~s.exporting
  <2>1. w \in SlotRecords /\ Contents(w) = Contents(s) \o Opening(format) /\ Tidy(f, w)
    BY <1>1, WriteKeeps, WriteDoes
  <2>2. e = [w EXCEPT !.exporting = TRUE] /\ Start(format, s) = Opening(format)
    BY <1>3 DEF StartExporting, Start
  <2> HIDE DEF w, e
  <2>3. e.file = w.file /\ e.held = w.held
    BY <2>1, <2>2 DEF SlotRecords
  <2> QED BY <1>1, <2>1, <2>2, <2>3 DEF Contents, Tidy, e
<1> QED BY <1>2, <1>3

LEMMA ExportDoes ==
    ASSUME NEW f \in FeedNames, NEW format, NEW s \in SlotRecords, Tidy(f, s), NEW i \in Items
    PROVE  LET e == ExportItem(f, format, s, i) IN
           /\ Contents(e) = Contents(s) \o Start(format, s) \o Entry(f, format, i, s.items)
           /\ Tidy(f, e) /\ e.exporting
<1> DEFINE u == StartExporting(f, format, s)
           entry == Entry(f, format, i, s.items)
           w == Write(f, u, entry)
           e == ExportItem(f, format, s, i)
<1>1. /\ u \in SlotRecords /\ u.items = s.items /\ u.exporting
      /\ Contents(u) = Contents(s) \o Start(format, s) /\ Tidy(f, u)
  BY StartKeeps, StartDoes
<1>2. entry \in Seq(Marks)
  <2>1. s.items \in Seq(Items)
    BY DEF SlotRecords
  <2> QED BY <2>1, EntryHasItem
<1>3. e = [w EXCEPT !.items = Append(@, i)]
  BY DEF ExportItem
<1> HIDE DEF u, entry
<1>4. w \in SlotRecords /\ w.exporting /\ Contents(w) = Contents(u) \o entry /\ Tidy(f, w)
  BY <1>1, <1>2, WriteKeeps, WriteDoes
<1> HIDE DEF w, e
<1>5. e.file = w.file /\ e.held = w.held /\ e.exporting = w.exporting
  BY <1>3, <1>4 DEF SlotRecords
<1> QED BY <1>1, <1>4, <1>5 DEF Contents, Tidy, e, entry

LEMMA FinishDoes ==
    ASSUME NEW f, NEW format, NEW s \in SlotRecords, Tidy(f, s)
    PROVE  LET e == StorageFile(FinishExporting(f, format, s)) IN
           e.file = Contents(s) \o Start(format, s) \o Closing(format) /\ e.held = <<>>
<1> DEFINE u == StartExporting(f, format, s)
           w == Write(f, u, Closing(format))
           v == FinishExporting(f, format, s)
           e == StorageFile(v)
<1>1. /\ u \in SlotRecords /\ Contents(u) = Contents(s) \o Start(format, s) /\ Tidy(f, u)
  BY StartKeeps, StartDoes
<1>2. v = [w EXCEPT !.exporting = FALSE]
  BY DEF FinishExporting
<1>3. Closing(format) \in Seq(Marks)
  BY FormatMarks
<1>4. e = [v EXCEPT !.file = @ \o v.held, !.held = <<>>]
  BY DEF StorageFile
<1> HIDE DEF u
<1>5. w \in SlotRecords /\ Contents(w) = Contents(u) \o Closing(format)
  BY <1>1, <1>3, WriteKeeps, WriteDoes
<1> HIDE DEF w, v, e
<1>6. v.file = w.file /\ v.held = w.held /\ v \in SlotRecords
  BY <1>2, <1>5 DEF SlotRecords
<1>7. e.file = v.file \o v.held /\ e.held = <<>>
  BY <1>4, <1>6 DEF SlotRecords
<1> QED BY <1>1, <1>5, <1>6, <1>7 DEF Contents, e, v

-----------------------------------------------------------------------------
(* What a slot and its file agree on, for a feed with options o. *)

RowsOf(f, first) ==
    LET columns == Columns(f, first)
    IN  {Headers(columns)} \cup {Written(i, columns, TRUE) : i \in Items}

\* While a batch is open, what is written of it is a document without its end.
OpenFits(o, s) ==
    ~s.closed =>
        IF s.exporting THEN Outline(Contents(s)) = Begun(o.format, s.items)
        ELSE s.items = <<>> /\ Contents(s) = <<>>

\* What the storage was given is a whole document, and all there is where it is not copied.
StoredFits(o, s) ==
    s.storing \/ s.success =>
        /\ s.closed
        /\ \E n \in 0..Len(s.items) :
              Outline(s.stored) = Document(o.format, SubSeq(s.items, 1, n))
        /\ o.scheme \notin Blocking => s.file = s.stored

\* A CSV file has nothing but the headers of its columns and rows with a cell for each.
RowsFit(f, o, s) ==
    o.format = "csv" =>
        ToSet(Contents(s)) \subseteq (IF s.items = <<>> THEN {} ELSE RowsOf(f, s.items[1]))

SlotFits(f, o, s) == Tidy(f, s) /\ OpenFits(o, s) /\ StoredFits(o, s) /\ RowsFit(f, o, s)

LEMMA NewFits ==
    ASSUME NEW f, NEW o
    PROVE  SlotFits(f, o, NewSlot)
<1>1. Contents(NewSlot) = <<>>
  BY DEF Contents, NewSlot
<1>2. ToSet(<<>>) = {}
  BY DEF ToSet
<1> QED BY <1>1, <1>2 DEF SlotFits, Tidy, OpenFits, StoredFits, RowsFit, NewSlot

\* A step that writes nothing.
LEMMA SameFits ==
    ASSUME NEW f, NEW o, NEW s \in SlotRecords, NEW e \in SlotRecords, SlotFits(f, o, s),
           e.items = s.items, e.file = s.file, e.held = s.held, e.stored = s.stored,
           e.exporting = s.exporting, s.closed => e.closed,
           e.storing \/ e.success => s.storing \/ s.success
    PROVE  SlotFits(f, o, e)
<1>1. Contents(e) = Contents(s)
  BY DEF Contents
<1>2. Tidy(f, e)
  BY DEF SlotFits, Tidy
<1>3. OpenFits(o, e)
  BY <1>1 DEF SlotFits, OpenFits
<1>4. StoredFits(o, e)
  BY DEF SlotFits, StoredFits
<1>5. RowsFit(f, o, e)
  BY <1>1 DEF SlotFits, RowsFit
<1> QED BY <1>2, <1>3, <1>4, <1>5 DEF SlotFits

LEMMA FirstOf ==
    ASSUME NEW items \in Seq(Items), NEW i \in Items
    PROVE  /\ Append(items, i) \in Seq(Items) /\ Append(items, i) # <<>>
           /\ Append(items, i)[1] = IF items = <<>> THEN i ELSE items[1]
           /\ \A n \in 0..Len(items) :
                 n \in 0..Len(Append(items, i)) /\ SubSeq(Append(items, i), 1, n) = SubSeq(items, 1, n)
<1> DEFINE more == Append(items, i)
<1>1. /\ more \in Seq(Items) /\ Len(more) = Len(items) + 1 /\ Len(items) \in Nat
      /\ \A n \in 1..Len(items) : more[n] = items[n]
      /\ more[Len(items) + 1] = i
  OBVIOUS
<1>2. items = <<>> => Len(items) = 0
  OBVIOUS
<1>3. items # <<>> => 1 \in 1..Len(items)
  BY EmptySeq
<1> HIDE DEF more
<1>4. more # <<>>
  BY <1>1, EmptySeq
<1>5. more[1] = IF items = <<>> THEN i ELSE items[1]
  BY <1>1, <1>2, <1>3
<1>6. ASSUME NEW n \in 0..Len(items)
      PROVE  n \in 0..Len(more) /\ SubSeq(more, 1, n) = SubSeq(items, 1, n)
  <2>1. n \in Int /\ 1 \in Int /\ n \in 0..Len(more)
    BY <1>1
  <2>2. \A k \in 1..n : more[k] \in Items /\ items[k] \in Items /\ more[k] = items[k]
    BY <1>1
  <2>3. /\ SubSeq(more, 1, n) \in Seq(Items) /\ SubSeq(items, 1, n) \in Seq(Items)
        /\ Len(SubSeq(more, 1, n)) = n /\ Len(SubSeq(items, 1, n)) = n
        /\ \A k \in 1..n : SubSeq(more, 1, n)[k] = more[k] /\ SubSeq(items, 1, n)[k] = items[k]
    BY <2>1, <2>2, SubSeqProperties
  <2> QED BY <2>1, <2>2, <2>3, SeqEqual
<1> QED BY <1>1, <1>4, <1>5, <1>6 DEF more

LEMMA BegunEmpty ==
    ASSUME NEW format
    PROVE  Begun(format, <<>>) = Outline(Opening(format))
<1>1. Separator \in Vocabulary /\ <<>> \in Seq(Vocabulary)
  BY DEF Vocabulary, MarkNames
<1>2. Body(format, <<>>) = <<>>
  <2>1. Len(<<>>) = 0
    OBVIOUS
  <2>2. PICK f : Computes(f, format, <<>>, Vocabulary)
    BY <1>1, BodyIs
  <2> QED BY <2>1, <2>2 DEF Computes
<1>3. Begun(format, <<>>) = Outline(Opening(format)) \o <<>> \o <<>>
  BY <1>2 DEF Begun
<1>4. Outline(Opening(format)) \in Seq(Vocabulary)
  BY FormatMarks, FileWords
<1> HIDE DEF Opening
<1> QED BY <1>3, <1>4, ConcatEmptySeq

\* An open batch whose export has begun for certain.
LEMMA StartFits ==
    ASSUME NEW f, NEW o, NEW s \in SlotRecords, OpenFits(o, s), ~s.closed, Tidy(f, s)
    PROVE  Outline(Contents(s) \o Start(o.format, s)) = Begun(o.format, s.items)
<1> DEFINE start == Start(o.format, s)
           all == Contents(s)
<1>1. all \in Seq(Marks) /\ start \in Seq(Marks)
  BY ContentsAreMarks, StartDoes
<1>2. s.exporting \in BOOLEAN
  BY DEF SlotRecords
<1> HIDE DEF start, all
<1>3. CASE s.exporting
  <2>1. start = <<>>
    BY <1>3 DEF start, Start
  <2>2. all \o start = all
    BY <2>1, <1>1, MarksConcat
  <2> QED BY <2>2, <1>3 DEF OpenFits, all, start
<1>4. CASE ~s.exporting
  <2>1. start = Opening(o.format)
    BY <1>4 DEF start, Start
  <2>2. s.items = <<>> /\ all = <<>>
    BY <1>4 DEF OpenFits, all
  <2>3. all \o start = Opening(o.format)
    BY <2>1, <2>2, <1>1, MarksConcat
  <2> QED BY <2>2, <2>3, BegunEmpty DEF all, start
<1> QED BY <1>2, <1>3, <1>4

LEMMA ExportFits ==
    ASSUME NEW f \in FeedNames, NEW o, NEW s \in SlotRecords, SlotFits(f, o, s), NEW i \in Items,
           s.closed => Writable(f, o.format, o.scheme \in Blocking, s.storing)
    PROVE  SlotFits(f, o, ExportItem(f, o.format, s, i))
<1> DEFINE e == ExportItem(f, o.format, s, i)
           start == Start(o.format, s)
           entry == Entry(f, o.format, i, s.items)
           all == Contents(s)
<1>1. /\ e \in SlotRecords /\ SameState(s, e)
      /\ e.items = Append(s.items, i)
  <2>1. /\ e \in SlotRecords /\ SameState(s, e)
        /\ e.items = Append(s.items, i)
        /\ \A j : OnFile(s, j) \/ j = i => OnFile(e, j)
    BY ExportKeeps
  <2> QED BY <2>1
<1>2. Tidy(f, s) /\ OpenFits(o, s) /\ StoredFits(o, s) /\ RowsFit(f, o, s)
  BY DEF SlotFits
<1>3. Contents(e) = all \o start \o entry /\ Tidy(f, e) /\ e.exporting
  BY <1>2, ExportDoes
<1>4. s.items \in Seq(Items) /\ s.exporting \in BOOLEAN
  BY DEF SlotRecords
<1>5. all \in Seq(Marks) /\ start \in Seq(Marks) /\ entry \in Seq(Marks)
  BY <1>2, <1>4, ContentsAreMarks, StartDoes, EntryHasItem
<1>6. all \o start \in Seq(Marks)
  BY <1>5, MarksConcat
<1>7. /\ Append(s.items, i) # <<>>
      /\ Append(s.items, i)[1] = IF s.items = <<>> THEN i ELSE s.items[1]
      /\ \A n \in 0..Len(s.items) :
            /\ n \in 0..Len(Append(s.items, i))
            /\ SubSeq(Append(s.items, i), 1, n) = SubSeq(s.items, 1, n)
  BY <1>4, FirstOf
<1> HIDE DEF e, start, entry, all
<1>8. OpenFits(o, e)
  <2> SUFFICES ASSUME ~s.closed
               PROVE  Outline(Contents(e)) = Begun(o.format, Append(s.items, i))
    BY <1>1, <1>3 DEF OpenFits, SameState
  <2>1. Outline(all \o start) = Begun(o.format, s.items)
    BY <1>2, StartFits DEF all, start
  <2>2. Outline(Contents(e)) = Outline(all \o start) \o Outline(entry)
    BY <1>3, <1>5, <1>6, OutlineConcat
  <2>3. Begun(o.format, Append(s.items, i)) = Begun(o.format, s.items) \o Outline(entry)
    BY <1>4, BegunGrows DEF entry
  <2> QED BY <2>1, <2>2, <2>3
<1>9. StoredFits(o, e)
  <2> SUFFICES ASSUME s.storing \/ s.success
               PROVE  /\ s.closed
                      /\ \E n \in 0..Len(Append(s.items, i)) :
                            Outline(s.stored) = Document(o.format, SubSeq(Append(s.items, i), 1, n))
                      /\ o.scheme \in Blocking
    <3>1. /\ e.storing = s.storing /\ e.success = s.success /\ e.closed = s.closed
          /\ e.stored = s.stored /\ e.items = Append(s.items, i)
      BY <1>1 DEF SameState
    <3> QED BY <3>1 DEF StoredFits
  <2>1. /\ s.closed
        /\ \E n \in 0..Len(s.items) :
              Outline(s.stored) = Document(o.format, SubSeq(s.items, 1, n))
    BY <1>2 DEF StoredFits
  <2>2. o.scheme \in Blocking
    BY <2>1 DEF Writable
  <2> QED BY <2>1, <2>2, <1>7
<1>10. RowsFit(f, o, e)
  <2> SUFFICES ASSUME o.format = "csv"
               PROVE  ToSet(Contents(e)) \subseteq RowsOf(f, Append(s.items, i)[1])
    BY <1>1, <1>7 DEF RowsFit
  <2> DEFINE first == IF s.items = <<>> THEN i ELSE s.items[1]
             columns == Columns(f, first)
             h == Headers(columns)
             w == Written(i, columns, TRUE)
             empty == <<>>
  <2>1. start = empty
    BY DEF start, Start, Opening
  <2>2. ToSet(all) \subseteq RowsOf(f, first)
    <3>1. s.items = <<>> => ToSet(all) = {}
      BY <1>2 DEF RowsFit, all
    <3>2. s.items # <<>> => ToSet(all) \subseteq RowsOf(f, s.items[1])
      BY <1>2 DEF RowsFit, all
    <3> QED BY <3>1, <3>2
  <2>3. entry = (IF s.items = <<>> THEN <<h>> ELSE <<>>) \o <<w>>
    BY DEF Entry, entry
  <2>4. h \in RowsOf(f, first) /\ w \in RowsOf(f, first)
    BY DEF RowsOf
  <2> HIDE DEF h, w, first, columns
  <2>5. entry \in {<<h, w>>, <<w>>}
    BY <2>3, ShortConcat
  <2>6. ToSet(<<h, w>>) = {h, w} /\ ToSet(<<w>>) = {w}
    BY DEF ToSet
  <2>7. ToSet(entry) \subseteq RowsOf(f, first)
    BY <2>4, <2>5, <2>6
  <2>8. all \o start = all
    BY <2>1, <1>5, MarksConcat
  <2>9. ToSet(Contents(e)) = ToSet(all) \cup ToSet(entry)
    BY <1>3, <1>5, <2>8, SetOfJoined
  <2> QED BY <2>2, <2>7, <2>9, <1>7 DEF first
<1> QED BY <1>3, <1>8, <1>9, <1>10 DEF SlotFits, e

LEMMA BeginFits ==
    ASSUME NEW f \in FeedNames, NEW o, NEW s \in SlotRecords, SlotFits(f, o, s), ~s.closed
    PROVE  LET u == StorageFile(FinishExporting(f, o.format, s)) IN
           SlotFits(f, o, [u EXCEPT !.closed = TRUE, !.storing = TRUE, !.stored = u.file])
<1> DEFINE u == StorageFile(FinishExporting(f, o.format, s))
           e == [u EXCEPT !.closed = TRUE, !.storing = TRUE, !.stored = u.file]
           start == Start(o.format, s)
           end == Closing(o.format)
           all == Contents(s)
<1>1. u \in SlotRecords /\ SameState(s, u) /\ u.items = s.items
  BY FinishKeeps
<1>2. Tidy(f, s) /\ OpenFits(o, s) /\ RowsFit(f, o, s)
  BY DEF SlotFits
<1>3. u.file = all \o start \o end /\ u.held = <<>>
  BY <1>2, FinishDoes
<1>4. s.items \in Seq(Items) /\ s.exporting \in BOOLEAN
  BY DEF SlotRecords
<1>5. all \in Seq(Marks) /\ start \in Seq(Marks) /\ end \in Seq(Marks)
  BY <1>2, ContentsAreMarks, StartDoes, FormatMarks
<1> HIDE DEF u
<1>6. /\ e.items = u.items /\ e.file = u.file /\ e.held = u.held
      /\ e.stored = u.file /\ e.closed /\ e.storing
  BY <1>1, StoringIs
<1> HIDE DEF e, start, end, all
<1>7. Contents(e) = u.file
  <2>1. u.file \in Seq(Marks)
    BY <1>1 DEF SlotRecords
  <2> QED BY <1>3, <1>6, <2>1, MarksConcat DEF Contents
<1>8. Outline(all \o start) = Begun(o.format, s.items)
  BY <1>2, StartFits DEF all, start
<1>9. Outline(u.file) = Document(o.format, s.items)
  <2>1. all \o start \in Seq(Marks)
    BY <1>5, MarksConcat
  <2>2. Outline((all \o start) \o end) = Outline(all \o start) \o Outline(end)
    BY <1>5, <2>1, OutlineConcat
  <2> QED BY <1>3, <1>8, <2>2, DocumentIs DEF end
<1>10. StoredFits(o, e)
  <2>1. Len(s.items) \in 0..Len(s.items) /\ SubSeq(s.items, 1, Len(s.items)) = s.items
    BY <1>4, SubSeqFull
  <2>2. \E n \in 0..Len(e.items) :
           Outline(e.stored) = Document(o.format, SubSeq(e.items, 1, n))
    BY <1>1, <1>6, <1>9, <2>1
  <2> QED BY <1>6, <2>2 DEF StoredFits
<1>11. RowsFit(f, o, e)
  <2> SUFFICES ASSUME o.format = "csv" PROVE Contents(e) = all
    BY <1>1, <1>2, <1>6 DEF RowsFit, all
  <2>1. start = <<>> /\ end = <<>>
    BY DEF start, Start, Opening, end, Closing
  <2>2. all \o start = all /\ all \o end = all
    BY <2>1, <1>5, MarksConcat
  <2> QED BY <2>2, <1>3, <1>7
<1>12. Tidy(f, e)
  BY <1>3, <1>6 DEF Tidy
<1>13. OpenFits(o, e)
  BY <1>6 DEF OpenFits
<1> QED BY <1>10, <1>11, <1>12, <1>13 DEF SlotFits, e, u

\* The steps that only note something down in a slot.
LEMMA NotesFit ==
    ASSUME NEW f, NEW o, NEW s \in SlotRecords, SlotFits(f, o, s)
    PROVE  /\ SlotFits(f, o, [s EXCEPT !.closes = @ + 1])
           /\ SlotFits(f, o, [s EXCEPT !.failed = TRUE])
           /\ SlotFits(f, o, [s EXCEPT !.closed = TRUE])
           /\ SlotFits(f, o, Told(s))
           /\ s.storing => SlotFits(f, o, [Told(s) EXCEPT !.success = TRUE])
           /\ SlotFits(f, o, [Told(s) EXCEPT !.failed = TRUE])
<1>1. SlotFits(f, o, [s EXCEPT !.closes = @ + 1])
  <2> DEFINE e == [s EXCEPT !.closes = @ + 1]
  <2>1. /\ e \in SlotRecords /\ e.exporting = s.exporting /\ e.items = s.items /\ e.file = s.file
        /\ e.held = s.held /\ e.stored = s.stored /\ e.closed = s.closed
        /\ e.storing = s.storing /\ e.success = s.success
    BY DEF SlotRecords
  <2> HIDE DEF e
  <2>2. SlotFits(f, o, e)
    BY <2>1, SameFits
  <2> QED BY <2>2 DEF e
<1>2. SlotFits(f, o, [s EXCEPT !.failed = TRUE])
  <2> DEFINE e == [s EXCEPT !.failed = TRUE]
  <2>1. /\ e \in SlotRecords /\ e.exporting = s.exporting /\ e.items = s.items /\ e.file = s.file
        /\ e.held = s.held /\ e.stored = s.stored /\ e.closed = s.closed
        /\ e.storing = s.storing /\ e.success = s.success
    BY DEF SlotRecords
  <2> HIDE DEF e
  <2>2. SlotFits(f, o, e)
    BY <2>1, SameFits
  <2> QED BY <2>2 DEF e
<1>3. SlotFits(f, o, [s EXCEPT !.closed = TRUE])
  <2> DEFINE e == [s EXCEPT !.closed = TRUE]
  <2>1. /\ e \in SlotRecords /\ e.exporting = s.exporting /\ e.items = s.items /\ e.file = s.file
        /\ e.held = s.held /\ e.stored = s.stored /\ e.closed
        /\ e.storing = s.storing /\ e.success = s.success
    BY DEF SlotRecords
  <2> HIDE DEF e
  <2>2. SlotFits(f, o, e)
    BY <2>1, SameFits
  <2> QED BY <2>2 DEF e
<1> DEFINE u == Told(s)
<1>4. /\ u \in SlotRecords /\ u.exporting = s.exporting /\ u.items = s.items /\ u.file = s.file
      /\ u.held = s.held /\ u.stored = s.stored /\ u.closed
      /\ ~u.storing /\ u.success = s.success
  <2>1. u.exporting = s.exporting
    BY DEF SlotRecords, Told
  <2> QED BY <2>1, ToldIs
<1> HIDE DEF u
<1>5. SlotFits(f, o, u)
  BY <1>4, SameFits
<1>6. s.storing => SlotFits(f, o, [u EXCEPT !.success = TRUE])
  <2> DEFINE e == [u EXCEPT !.success = TRUE]
  <2>1. /\ e \in SlotRecords /\ e.exporting = s.exporting /\ e.items = s.items /\ e.file = s.file
        /\ e.held = s.held /\ e.stored = s.stored /\ e.closed
    BY <1>4 DEF SlotRecords
  <2> HIDE DEF e
  <2>2. s.storing => SlotFits(f, o, e)
    BY <2>1, SameFits
  <2> QED BY <2>2 DEF e
<1>7. SlotFits(f, o, [u EXCEPT !.failed = TRUE])
  <2> DEFINE e == [u EXCEPT !.failed = TRUE]
  <2>1. /\ e \in SlotRecords /\ e.exporting = s.exporting /\ e.items = s.items /\ e.file = s.file
        /\ e.held = s.held /\ e.stored = s.stored /\ e.closed
        /\ ~e.storing /\ e.success = s.success
    BY <1>4 DEF SlotRecords
  <2> HIDE DEF e
  <2>2. SlotFits(f, o, e)
    BY <2>1, SameFits
  <2> QED BY <2>2 DEF e
<1> QED BY <1>1, <1>2, <1>3, <1>5, <1>6, <1>7 DEF u

FilesFit == \A b \in Batches : SlotFits(b[1], feeds[b[1]], slot[b])

LEMMA FeedsStay == ASSUME FeedInv, Next PROVE feeds' = feeds
BY AnyStep, QuietKeeps, ScheduleDoes, TurnDoes, CloserDoes DEF FeedInv

LEMMA SlotsFit ==
    ASSUME FeedInv, FilesFit, Next
    PROVE  FilesFit'
<1> USE DEF FeedInv
<1>1. feeds' = feeds
  BY FeedsStay
<1>2. ASSUME NEW b \in Batches, NEW e, SlotFits(b[1], feeds[b[1]], e),
             slot' = [slot EXCEPT ![b] = e]
      PROVE  FilesFit'
  <2>1. \A c \in Batches : slot'[c] = IF c = b THEN e ELSE slot[c]
    BY <1>2 DEF FeedTypeOK
  <2> QED BY <1>1, <1>2, <2>1 DEF FilesFit
<1>3. ASSUME NEW b \in Batches
      PROVE  slot[b] \in SlotRecords /\ b[1] \in FeedNames /\ SlotFits(b[1], feeds[b[1]], slot[b])
  BY DEF FeedTypeOK, FilesFit, Batches
<1>4. CASE QuietStep
  BY <1>1, <1>4, QuietKeeps DEF FilesFit
<1>5. CASE ScheduleStep
  <2>1. Here \in Batches
    BY <1>5, ScheduleDoes
  <2>2. ScheduleClose
    BY <1>5 DEF ScheduleStep, CloseNext, Rotate, RotateFails
  <2> DEFINE s == slot[Here]
             e == [s EXCEPT !.closes = @ + 1]
  <2>3. slot' = [slot EXCEPT ![Here] = e]
    BY <2>2 DEF ScheduleClose
  <2>4. s \in SlotRecords /\ SlotFits(Here[1], feeds[Here[1]], s)
    BY <2>1, <1>3
  <2> HIDE DEF s
  <2>5. SlotFits(Here[1], feeds[Here[1]], e)
    BY <2>4, NotesFit
  <2> HIDE DEF e
  <2> QED BY <2>1, <2>3, <2>5, <1>2
<1>6. ASSUME NEW i \in Items, TurnStep(i) PROVE FilesFit'
  <2>1. Here \in Batches /\ Feed \in FeedNames
    BY <1>6, TurnDoes
  <2> DEFINE s == slot[Here]
             o == feeds[Feed]
  <2>2. Here[1] = Feed
    BY DEF Here
  <2>3. s \in SlotRecords /\ SlotFits(Feed, o, s)
    BY <1>3, <2>1, <2>2
  <2>4. ASSUME NEW e, SlotFits(Feed, o, e), Turn(i, e) PROVE FilesFit'
    BY <1>2, <2>1, <2>2, <2>4 DEF Turn
  <2>5. CASE Skip(i)
    BY <2>3, <2>4, <2>5 DEF Skip
  <2>6. CASE Export(i)
    <3>1. /\ s.closed => Writable(Feed, o.format, o.scheme \in Blocking, s.storing)
          /\ Turn(i, ExportItem(Feed, o.format, s, i))
      BY <2>6 DEF Export, Blocks
    <3> HIDE DEF s, o
    <3>2. SlotFits(Feed, o, ExportItem(Feed, o.format, s, i))
      BY <2>1, <2>3, <3>1, ExportFits
    <3> QED BY <2>4, <3>1, <3>2 DEF o
  <2>7. CASE ExportFails(i)
    <3>1. Turn(i, [s EXCEPT !.failed = TRUE])
      BY <2>7 DEF ExportFails
    <3> HIDE DEF s, o
    <3>2. SlotFits(Feed, o, [s EXCEPT !.failed = TRUE])
      BY <2>3, NotesFit
    <3> QED BY <2>4, <3>1, <3>2
  <2> QED BY <1>6, <2>5, <2>6, <2>7 DEF TurnStep
<1>7. ASSUME NEW t \in pending, CloserStep(t) PROVE FilesFit'
  <2> DEFINE b == t[1]
             f == b[1]
             o == feeds[f]
             s == slot[b]
  <2>1. b \in Batches
    BY DEF FeedTypeOK
  <2>2. s \in SlotRecords /\ f \in FeedNames /\ SlotFits(f, o, s)
    BY <1>3, <2>1
  <2>3. ASSUME NEW e, SlotFits(f, o, e), slot' = [slot EXCEPT ![b] = e] PROVE FilesFit'
    BY <1>2, <2>1, <2>3
  <2>4. CASE BeginStore(t)
    <3> DEFINE u == StorageFile(FinishExporting(f, o.format, s))
               e == [u EXCEPT !.closed = TRUE, !.storing = TRUE, !.stored = u.file]
    <3>1. slot' = [slot EXCEPT ![b] = e] /\ ~s.closed
      BY <2>4 DEF BeginStore
    <3> HIDE DEF s, o, f
    <3>2. SlotFits(f, o, e)
      BY <2>2, <3>1, BeginFits
    <3> QED BY <2>3, <3>1, <3>2
  <2>5. CASE ~BeginStore(t)
    <3> DEFINE Marked == {s, Told(s), [s EXCEPT !.closed = TRUE], [Told(s) EXCEPT !.failed = TRUE]}
    <3>1. \/ \E e \in Marked : slot' = [slot EXCEPT ![b] = e]
          \/ s.storing /\ slot' = [slot EXCEPT ![b] = [Told(s) EXCEPT !.success = TRUE]]
      BY <1>7, <2>5 DEF CloserStep, CloseAgain, CloseFailed, CloseEmpty, Stored, StoreFails, Storing, Ends
    <3> HIDE DEF s, o, f, b
    <3>2. /\ \A e \in Marked : SlotFits(f, o, e)
          /\ s.storing => SlotFits(f, o, [Told(s) EXCEPT !.success = TRUE])
      <4>1. /\ SlotFits(f, o, [s EXCEPT !.closed = TRUE])
            /\ SlotFits(f, o, Told(s))
            /\ s.storing => SlotFits(f, o, [Told(s) EXCEPT !.success = TRUE])
            /\ SlotFits(f, o, [Told(s) EXCEPT !.failed = TRUE])
        BY <2>2, NotesFit
      <4> QED BY <2>2, <4>1
    <3> QED BY <2>3, <3>1, <3>2
  <2> QED BY <2>4, <2>5
<1> QED
  BY <1>4, <1>5, <1>6, <1>7, AnyStep

-----------------------------------------------------------------------------
(* How far the batches are. *)

\* Feed f has got its next slot in this turn of the loop, or is about to.
Turning(f) ==
    lock # NoItem /\ (f \in fresh \/ (task[lock] \in {"rotating", "blocked"} /\ f = Feed))

OpenSize(f) == Len(slot[<<f, slots[f]>>].items)

\* A batch is full when the next one is made, and not before.
SizesFit ==
    \A f \in FeedNames \ unrotated : BatchSize[f] > 0 =>
        /\ \A b \in Batches : b[1] = f =>
              /\ Len(slot[b].items) <= BatchSize[f]
              /\ b[2] < slots[f] => Len(slot[b].items) = BatchSize[f]
        /\ lock # NoItem /\ f \in fresh => OpenSize(f) = BatchSize[f]
        /\ phase \notin {"closing", "closed"} /\ ~Turning(f) => OpenSize(f) < BatchSize[f]

\* A feed without a batch size has one batch.
SingleBatches == \A f \in FeedNames : BatchSize[f] = 0 => slots[f] = 1 /\ f \notin fresh

\* Nothing is written before the feeds have been found valid.
FeedsAreValid ==
    IF phase \in {"open", "closing", "closed"} THEN \A f \in FeedNames : Valid(f)
    ELSE \A b \in Batches : slot[b] = NewSlot

LEMMA Lengths ==
    ASSUME FeedTypeOK
    PROVE  /\ \A b \in Batches : slot[b].items \in Seq(Items) /\ Len(slot[b].items) \in Nat
           /\ \A f \in FeedNames : BatchSize[f] \in Nat /\ slots[f] \in Nat \ {0}
           /\ \A b \in Batches : b[1] \in FeedNames /\ b[2] \in Nat \ {0} /\ b = <<b[1], b[2]>>
<1>1. ASSUME NEW b \in Batches PROVE slot[b].items \in Seq(Items)
  BY DEF FeedTypeOK, SlotRecords
<1>2. \A b \in Batches : b[1] \in FeedNames /\ b[2] \in Nat \ {0} /\ b = <<b[1], b[2]>>
  BY FeedAssumption, FS_CardinalityType DEF Batches, BatchIds
<1>3. \A f \in FeedNames : BatchSize[f] \in Nat /\ slots[f] \in Nat \ {0}
  BY FeedAssumption DEF FeedTypeOK
<1>4. \A q \in Seq(Items) : Len(q) \in Nat
  OBVIOUS
<1> QED BY <1>1, <1>2, <1>3, <1>4

\* After its turn a feed without room for the next item makes a batch.
LEMMA TurnEnds ==
    ASSUME FeedTypeOK, SlotsAreCounted, LoopFits, NEW i \in Items, TurnStep(i)
    PROVE  /\ slot'[Here].items = slot[Here].items \/ Len(slot'[Here].items) = Len(slot[Here].items) + 1
           /\ \/ task' = [task EXCEPT ![i] = "rotating"] /\ turn' = turn
              \/ /\ task' = task /\ turn' = turn + 1
                 /\ slot'[Here].items = slot[Here].items \/ ~Full(slot'[Here])
<1>1. Here \in Batches /\ slot[Here].items \in Seq(Items)
  BY TurnDoes, Lengths
<1>2. slot'[Here].items = slot[Here].items \/ slot'[Here].items = Append(slot[Here].items, i)
  BY TurnDoes
<1>3. ASSUME NEW e, Turn(i, e), e.items = slot[Here].items \/ i \in Accepts[Feed]
      PROVE  \/ task' = [task EXCEPT ![i] = "rotating"] /\ turn' = turn
             \/ /\ task' = task /\ turn' = turn + 1
                /\ slot'[Here].items = slot[Here].items \/ ~Full(slot'[Here])
  <2>1. slot'[Here] = e
    BY <1>1, <1>3 DEF Turn, FeedTypeOK
  <2> QED BY <1>3, <2>1 DEF Turn
<1>4. CASE Skip(i)
  BY <1>1, <1>2, <1>3, <1>4 DEF Skip
<1>5. CASE Export(i)
  BY <1>1, <1>2, <1>3, <1>5 DEF Export
<1>6. CASE ExportFails(i)
  BY <1>1, <1>2, <1>3, <1>6 DEF ExportFails
<1>7. Len(Append(slot[Here].items, i)) = Len(slot[Here].items) + 1
  BY <1>1
<1> QED BY <1>2, <1>4, <1>5, <1>6, <1>7 DEF TurnStep

LEMMA SizesKept ==
    ASSUME FeedInv, SizesFit, Next
    PROVE  SizesFit'
<1> USE DEF FeedInv
<1>0. /\ NoItem \notin Items /\ Len(Feeds) \in Nat
      /\ \A k, l \in 1..Len(Feeds) : Feeds[k] = Feeds[l] => k = l
  BY FeedAssumption DEF IsInjective
<1>1. /\ \A b \in Batches : Len(slot[b].items) \in Nat
      /\ \A f \in FeedNames : BatchSize[f] \in Nat /\ slots[f] \in Nat \ {0}
      /\ \A b \in Batches : b[1] \in FeedNames /\ b[2] \in Nat \ {0} /\ b = <<b[1], b[2]>>
  BY Lengths
<1>2. \A f \in FeedNames : <<f, slots[f]>> \in Batches
  BY OpenIsABatch
\* The steps that leave the sizes alone.
<1>3. ASSUME slots' = slots, \A b \in Batches : slot'[b].items = slot[b].items,
             unrotated \subseteq unrotated',
             \A f \in FeedNames \ unrotated' : lock' # NoItem /\ f \in fresh' =>
                 OpenSize(f) = BatchSize[f] \/ (lock # NoItem /\ f \in fresh),
             \A f \in FeedNames \ unrotated' : phase' \notin {"closing", "closed"} /\ ~Turning(f)' =>
                 phase \notin {"closing", "closed"} /\ ~Turning(f)
      PROVE  SizesFit'
  <2> SUFFICES ASSUME NEW f \in FeedNames \ unrotated', BatchSize[f] > 0
               PROVE  /\ \A b \in Batches : b[1] = f =>
                            /\ Len(slot'[b].items) <= BatchSize[f]
                            /\ b[2] < slots'[f] => Len(slot'[b].items) = BatchSize[f]
                      /\ lock' # NoItem /\ f \in fresh' => OpenSize(f)' = BatchSize[f]
                      /\ phase' \notin {"closing", "closed"} /\ ~Turning(f)' =>
                            OpenSize(f)' < BatchSize[f]
    BY DEF SizesFit
  <2>1. f \in FeedNames \ unrotated /\ OpenSize(f)' = OpenSize(f)
    BY <1>2, <1>3 DEF OpenSize
  <2> QED BY <1>3, <2>1 DEF SizesFit
<1>4. CASE QuietStep
  <2>1. slot' = slot /\ unrotated' = unrotated
    BY <1>4, QuietKeeps
  <2>2. CASE Disable \/ OpenSpider \/ Gather
    <3>1. UNCHANGED <<slots, lock, fresh, task, turn>> /\
          (phase \in {"closing", "closed"} => phase' \in {"closing", "closed"})
      BY <2>2 DEF Disable, OpenSpider, Gather
    <3>2. \A f : Turning(f)' <=> Turning(f)
      BY <3>1 DEF Turning, Feed
    <3> QED BY <1>3, <2>1, <3>1, <3>2
  <2>3. CASE Shutdown
    <3>1. slots' = slots /\ lock' = NoItem /\ phase' = "closing"
      BY <2>3 DEF Shutdown
    <3> QED BY <1>3, <2>1, <3>1
  <2>4. ASSUME NEW i \in Items, Refuse(i) \/ Scrape(i) \/ Wait(i) PROVE SizesFit'
    <3>1. UNCHANGED <<slots, lock, fresh, phase, turn>>
      BY <2>4 DEF Refuse, Scrape, Wait
    <3>2. \A j \in Items : task[j] \in {"rotating", "blocked"} => task'[j] \in {"rotating", "blocked"}
      BY <2>4 DEF Refuse, Scrape, Wait, FeedTypeOK
    <3>3. \A f : Turning(f) => Turning(f)'
      BY <3>1, <3>2 DEF Turning, Feed, FeedTypeOK
    <3> QED BY <1>3, <2>1, <3>1, <3>3
  <2>5. ASSUME NEW i \in Items, Lock(i) PROVE SizesFit'
    <3>1. slots' = slots /\ phase' = phase /\ lock = NoItem /\ fresh' = {}
      BY <2>5 DEF Lock
    <3>2. \A f : ~Turning(f)
      BY <3>1 DEF Turning
    <3> QED BY <1>3, <2>1, <3>1, <3>2
  <2>6. ASSUME NEW i \in Items, Exported(i) PROVE SizesFit'
    <3>1. /\ lock = i /\ task[i] = "exporting" /\ lock' = NoItem /\ phase' = phase
          /\ \A f \in FeedNames : slots'[f] = IF f \in fresh THEN slots[f] + 1 ELSE slots[f]
      BY <2>6 DEF Exported
    <3>2. \A f \in FeedNames : <<f, slots'[f]>> \in Batches
      <4> DEFINE done == {j \in Items : task'[j] = "done"}
      <4>1. Cardinality(done) \in Nat /\ Cardinality(done) <= Cardinality(Items)
        BY FeedAssumption, FS_Subset, FS_CardinalityType
      <4>2. Cardinality(Items) \in Nat
        BY FeedAssumption, FS_CardinalityType
      <4>3. FeedTypeOK' /\ SlotsAreCounted'
        BY TypeKept, CountKept
      <4>4. \A f \in FeedNames : slots'[f] \in Nat \ {0} /\ slots'[f] <= Cardinality(done) + 1
        BY <4>3 DEF FeedTypeOK, SlotsAreCounted
      <4> HIDE DEF done
      <4>5. \A f \in FeedNames : slots'[f] \in BatchIds
        BY <4>1, <4>2, <4>4 DEF BatchIds
      <4> QED BY <4>5 DEF Batches
    <3> SUFFICES ASSUME NEW f \in FeedNames \ unrotated', BatchSize[f] > 0
                 PROVE  /\ \A b \in Batches : b[1] = f =>
                              /\ Len(slot[b].items) <= BatchSize[f]
                              /\ b[2] < slots'[f] => Len(slot[b].items) = BatchSize[f]
                        /\ phase \notin {"closing", "closed"} =>
                              Len(slot[<<f, slots'[f]>>].items) < BatchSize[f]
      BY <2>1, <3>1 DEF SizesFit, OpenSize
    <3>3. lock # NoItem /\ phase = "open"
      BY <3>1, <1>0 DEF LoopFits
    <3>4. /\ \A b \in Batches : b[1] = f =>
                /\ Len(slot[b].items) <= BatchSize[f]
                /\ b[2] < slots[f] => Len(slot[b].items) = BatchSize[f]
          /\ f \in fresh => Len(slot[<<f, slots[f]>>].items) = BatchSize[f]
          /\ ~Turning(f) => Len(slot[<<f, slots[f]>>].items) < BatchSize[f]
      BY <2>1, <3>3 DEF SizesFit, OpenSize
    <3>5. CASE f \in fresh
      <4>1. slots'[f] = slots[f] + 1
        BY <3>1, <3>5
      <4>2. slot[<<f, slots'[f]>>].items = <<>>
        BY <3>2, <4>1, <1>1 DEF BatchesInOrder, BehindAndAhead
      <4>3. ASSUME NEW b \in Batches, b[1] = f, b[2] < slots'[f]
            PROVE  Len(slot[b].items) = BatchSize[f]
        <5>1. b[2] < slots[f] \/ b = <<f, slots[f]>>
          BY <1>1, <4>1, <4>3
        <5> QED BY <3>4, <3>5, <4>3, <5>1
      <4>4. Len(slot[<<f, slots'[f]>>].items) = 0
        BY <4>2
      <4> QED BY <3>4, <4>3, <4>4
    <3>6. CASE f \notin fresh
      <4>1. slots'[f] = slots[f] /\ ~Turning(f)
        BY <3>1, <3>6 DEF Turning
      <4> QED BY <3>4, <4>1
    <3> QED BY <3>5, <3>6
  <2> QED BY <1>4, <2>2, <2>3, <2>4, <2>5, <2>6 DEF QuietStep
<1>5. CASE ScheduleStep
  <2>1. /\ turn <= Len(Feeds) /\ Here \in Batches /\ Feed \in FeedNames /\ slots' = slots
        /\ \A b \in Batches : slot'[b].items = slot[b].items
    BY <1>5, ScheduleDoes
  <2>2. CASE CloseNext
    <3>1. phase = "closing" /\ phase' = "closing" /\ lock' = NoItem /\ unrotated' = unrotated
      BY <2>2, <1>0 DEF CloseNext, LoopFits
    <3> QED BY <1>3, <2>1, <3>1
  <2>3. ASSUME NEW i \in Items, Rotate(i) PROVE SizesFit'
    <3>1. /\ lock = i /\ lock' = lock /\ phase' = phase /\ unrotated' = unrotated
          /\ fresh' = fresh \cup {Feed} /\ task[i] \in {"rotating", "blocked"}
      BY <2>3 DEF Rotate, LoopFits, Busy
    <3>2. lock # NoItem /\ Full(slot[Here])
      BY <3>1, <1>0 DEF LoopFits
    <3>3. ASSUME NEW f \in FeedNames \ unrotated', f \in fresh'
          PROVE  OpenSize(f) = BatchSize[f] \/ (lock # NoItem /\ f \in fresh)
      <4>1. CASE f \in fresh
        BY <4>1, <3>2
      <4>2. CASE f = Feed
        <5>1. BatchSize[f] > 0 /\ OpenSize(f) >= BatchSize[f]
          BY <3>2, <4>2 DEF Full, OpenSize, Here
        <5>2. OpenSize(f) <= BatchSize[f]
          BY <1>2, <3>1, <5>1 DEF SizesFit, OpenSize
        <5>3. OpenSize(f) \in Nat /\ BatchSize[f] \in Nat
          BY <1>1, <1>2 DEF OpenSize
        <5> QED BY <5>1, <5>2, <5>3
      <4> QED BY <3>1, <3>3, <4>1, <4>2
    <3>4. \A f : Turning(f) => Turning(f)'
      BY <3>1 DEF Turning
    <3> QED BY <1>3, <2>1, <3>1, <3>3, <3>4
  <2>4. ASSUME NEW i \in Items, RotateFails(i) PROVE SizesFit'
    <3>1. lock' = NoItem /\ phase' = phase /\ unrotated' = unrotated \cup fresh \cup {Feed}
      BY <2>4 DEF RotateFails
    <3>2. \A f : f \notin unrotated' => ~Turning(f)
      BY <3>1 DEF Turning
    <3> QED BY <1>3, <2>1, <3>1, <3>2
  <2> QED BY <1>5, <2>2, <2>3, <2>4 DEF ScheduleStep
<1>6. ASSUME NEW i \in Items, TurnStep(i) PROVE SizesFit'
  <2>1. /\ lock = i /\ task[i] = "exporting" /\ turn <= Len(Feeds)
        /\ Here \in Batches /\ Feed \in FeedNames
        /\ UNCHANGED <<phase, slots, lock, fresh, unrotated>>
        /\ \A b \in Batches : b # Here => slot'[b] = slot[b]
    BY <1>6, TurnDoes
  <2>2. lock # NoItem /\ phase = "open" /\ turn \in 1..Len(Feeds) /\ Feed \notin fresh
    <3>1. lock # NoItem /\ phase = "open" /\ fresh \subseteq {Feeds[k] : k \in 1..(turn - 1)}
      BY <2>1, <1>0 DEF LoopFits
    <3>2. turn \in 1..Len(Feeds)
      BY <2>1, <1>0 DEF FeedTypeOK
    <3>3. \A k \in 1..(turn - 1) : k \in 1..Len(Feeds) /\ k # turn
      BY <1>0, <3>2
    <3> QED BY <1>0, <3>1, <3>2, <3>3 DEF Feed
  <2>3. \A f : Turning(f) <=> f \in fresh
    BY <2>1, <2>2 DEF Turning
  <2>4. \A f : f \in fresh => Turning(f)'
    BY <2>1, <2>2 DEF Turning
  <2> SUFFICES ASSUME NEW f \in FeedNames \ unrotated, BatchSize[f] > 0
               PROVE  /\ \A b \in Batches : b[1] = f =>
                            /\ Len(slot'[b].items) <= BatchSize[f]
                            /\ b[2] < slots[f] => Len(slot'[b].items) = BatchSize[f]
                      /\ f \in fresh => Len(slot'[<<f, slots[f]>>].items) = BatchSize[f]
                      /\ ~Turning(f)' => Len(slot'[<<f, slots[f]>>].items) < BatchSize[f]
    BY <2>1 DEF SizesFit, OpenSize
  <2>5. /\ \A b \in Batches : b[1] = f =>
              /\ Len(slot[b].items) <= BatchSize[f]
              /\ b[2] < slots[f] => Len(slot[b].items) = BatchSize[f]
        /\ f \in fresh => Len(slot[<<f, slots[f]>>].items) = BatchSize[f]
        /\ f \notin fresh => Len(slot[<<f, slots[f]>>].items) < BatchSize[f]
    BY <2>2, <2>3 DEF SizesFit, OpenSize
  <2>6. CASE f # Feed
    <3>1. \A b \in Batches : b[1] = f => slot'[b] = slot[b]
      BY <2>1, <2>6 DEF Here
    <3>2. slot'[<<f, slots[f]>>] = slot[<<f, slots[f]>>]
      BY <1>2, <2>1, <2>6 DEF Here
    <3> QED BY <2>4, <2>5, <3>1, <3>2
  <2>7. CASE f = Feed
    <3> DEFINE n == Len(slot[Here].items)
               m == Len(slot'[Here].items)
    <3>1. n \in Nat /\ n < BatchSize[f] /\ BatchSize[f] \in Nat
      BY <1>1, <2>1, <2>2, <2>5, <2>7 DEF Here
    <3>2. /\ m = n \/ m = n + 1
          /\ \/ task' = [task EXCEPT ![i] = "rotating"] /\ turn' = turn
             \/ task' = task /\ turn' = turn + 1 /\ (m = n \/ ~(m >= BatchSize[f]))
      BY <1>6, <2>7, TurnEnds DEF Full
    <3>3. ~Turning(f)' => m < BatchSize[f]
      <4>1. CASE task' = [task EXCEPT ![i] = "rotating"] /\ turn' = turn
        <5>1. task'[i] = "rotating" /\ Feed' = Feed
          BY <4>1 DEF FeedTypeOK, Feed
        <5>2. Turning(f)'
          BY <2>1, <2>2, <2>7, <5>1 DEF Turning
        <5> QED BY <5>2
      <4>2. CASE m = n \/ ~(m >= BatchSize[f])
        BY <3>1, <3>2, <4>2
      <4> QED BY <3>2, <4>1, <4>2
    <3>4. ASSUME NEW b \in Batches, b[1] = f
          PROVE  /\ Len(slot'[b].items) <= BatchSize[f]
                 /\ b[2] < slots[f] => Len(slot'[b].items) = BatchSize[f]
      <4>1. CASE b = Here
        <5>1. ~(b[2] < slots[f]) /\ m <= BatchSize[f]
          BY <1>1, <2>7, <3>1, <3>2, <4>1 DEF Here
        <5> QED BY <4>1, <5>1
      <4>2. CASE b # Here
        BY <2>1, <2>5, <3>4, <4>2
      <4> QED BY <4>1, <4>2
    <3> QED BY <2>2, <2>7, <3>3, <3>4 DEF Here
  <2> QED BY <2>6, <2>7
<1>7. ASSUME NEW t \in pending, CloserStep(t) PROVE SizesFit'
  <2>1. /\ UNCHANGED <<phase, slots, lock, task, turn, fresh, unrotated>>
        /\ \A b \in Batches : slot'[b].items = slot[b].items
    BY <1>7, CloserDoes
  <2>2. \A f : Turning(f)' <=> Turning(f)
    BY <2>1 DEF Turning, Feed
  <2> QED BY <1>3, <2>1, <2>2
<1> QED BY <1>4, <1>5, <1>6, <1>7, AnyStep

LEMMA SinglesKept ==
    ASSUME FeedInv, SingleBatches, Next
    PROVE  SingleBatches'
<1> USE DEF FeedInv
<1>1. CASE UNCHANGED <<slots, fresh>>
  BY <1>1 DEF SingleBatches
<1>2. ASSUME NEW i \in Items, Lock(i) PROVE SingleBatches'
  BY <1>2 DEF Lock, SingleBatches
<1>3. ASSUME NEW i \in Items, Exported(i) PROVE SingleBatches'
  BY <1>3 DEF Exported, SingleBatches
<1>4. ASSUME NEW i \in Items, Rotate(i) PROVE SingleBatches'
  <2>1. Full(slot[Here])
    BY <1>4 DEF Rotate, LoopFits
  <2>2. slots' = slots /\ fresh' = fresh \cup {Feed}
    BY <1>4 DEF Rotate
  <2> QED BY <2>1, <2>2 DEF SingleBatches, Full
<1>5. UNCHANGED <<slots, fresh>> \/ \E i \in Items : Lock(i) \/ Exported(i) \/ Rotate(i)
  <2>1. CASE QuietStep
    BY <2>1 DEF QuietStep, Disable, OpenSpider, Shutdown, Gather, Refuse, Scrape, Wait
  <2>2. CASE ScheduleStep
    BY <2>2 DEF ScheduleStep, CloseNext, RotateFails
  <2>3. ASSUME NEW i \in Items, TurnStep(i) PROVE UNCHANGED <<slots, fresh>>
    BY <2>3, TurnDoes
  <2>4. ASSUME NEW t \in pending, CloserStep(t) PROVE UNCHANGED <<slots, fresh>>
    BY <2>4, CloserDoes
  <2> QED BY <2>1, <2>2, <2>3, <2>4, AnyStep
<1> QED BY <1>1, <1>2, <1>3, <1>4, <1>5

LEMMA ValidKept ==
    ASSUME FeedInv, FeedsAreValid, Next
    PROVE  FeedsAreValid'
<1> USE DEF FeedInv
<1>0. NoItem \notin Items
  BY FeedAssumption
<1>1. feeds' = feeds
  BY FeedsStay
<1>2. \A f : Valid(f)' <=> Valid(f)
  BY <1>1 DEF Valid
<1>3. ASSUME phase' = phase, phase \in {"open", "closing", "closed"} PROVE FeedsAreValid'
  BY <1>2, <1>3 DEF FeedsAreValid
<1>4. CASE QuietStep
  <2>1. slot' = slot
    BY <1>4, QuietKeeps
  <2>2. CASE OpenSpider
    BY <1>2, <2>2 DEF OpenSpider, FeedsAreValid
  <2>3. CASE Disable
    BY <2>1, <2>3 DEF Disable, FeedsAreValid
  <2>4. CASE Shutdown \/ Gather
    BY <1>2, <2>4 DEF Shutdown, Gather, FeedsAreValid
  <2>5. ASSUME NEW i \in Items, Refuse(i) \/ Scrape(i) \/ Lock(i) \/ Wait(i) \/ Exported(i)
        PROVE  FeedsAreValid'
    <3>1. phase' = phase
      BY <2>5 DEF Refuse, Scrape, Lock, Wait, Exported
    <3> QED BY <1>2, <2>1, <3>1 DEF FeedsAreValid
  <2> QED BY <1>4, <2>2, <2>3, <2>4, <2>5 DEF QuietStep
<1>5. CASE ScheduleStep
  <2>1. CASE CloseNext
    BY <1>3, <2>1 DEF CloseNext
  <2>2. ASSUME NEW i \in Items, Rotate(i) \/ RotateFails(i) PROVE FeedsAreValid'
    <3>1. lock = i /\ phase' = phase
      BY <2>2 DEF Rotate, RotateFails, LoopFits, Busy
    <3> QED BY <1>0, <1>3, <3>1 DEF LoopFits
  <2> QED BY <1>5, <2>1, <2>2 DEF ScheduleStep
<1>6. ASSUME NEW i \in Items, TurnStep(i) PROVE FeedsAreValid'
  <2>1. lock = i /\ phase' = phase
    BY <1>6, TurnDoes
  <2> QED BY <1>0, <1>3, <2>1 DEF LoopFits
<1>7. ASSUME NEW t \in pending, CloserStep(t) PROVE FeedsAreValid'
  <2>1. phase' = phase /\ t[1] \in Batches /\ slot[t[1]].closes > 0
    BY <1>7, CloserDoes
  <2>2. slot[t[1]] # NewSlot
    BY <2>1 DEF NewSlot
  <2>3. phase \in {"open", "closing", "closed"}
    BY <2>1, <2>2 DEF FeedsAreValid
  <2> QED BY <1>3, <2>1, <2>3
<1> QED BY <1>4, <1>5, <1>6, <1>7, AnyStep

-----------------------------------------------------------------------------
(* Whole batches *)

WholeInv == FeedInv /\ FilesFit /\ SizesFit /\ SingleBatches /\ FeedsAreValid

LEMMA WholeInvHolds == Spec => []WholeInv
<1>1. Init => WholeInv
  <2> SUFFICES ASSUME Init PROVE WholeInv
    OBVIOUS
  <2>1. FeedInv
    BY InitHolds
  <2>2. \A b \in Batches : slot[b] = NewSlot
    BY DEF Init
  <2>3. FilesFit
    BY <2>2, NewFits DEF FilesFit
  <2>4. SizesFit
    <3>1. \A b \in Batches : Len(slot[b].items) = 0
      BY <2>2 DEF NewSlot
    <3>2. lock = NoItem /\ \A f \in FeedNames : slots[f] = 1 /\ <<f, slots[f]>> \in Batches
      BY <2>1, OpenIsABatch DEF Init, FeedInv
    <3>3. \A b \in Batches : b[1] \in FeedNames /\ ~(b[2] < 1)
      BY <2>1, Lengths DEF FeedInv
    <3>4. \A f \in FeedNames : BatchSize[f] \in Nat
      BY FeedAssumption
    <3> QED BY <3>1, <3>2, <3>3, <3>4 DEF SizesFit, OpenSize
  <2>5. SingleBatches
    BY DEF Init, SingleBatches
  <2>6. FeedsAreValid
    BY <2>2 DEF Init, FeedsAreValid
  <2> QED BY <2>1, <2>3, <2>4, <2>5, <2>6 DEF WholeInv
<1>2. FeedInv /\ FeedInv' /\ WholeInv /\ [Next]_vars => WholeInv'
  <2> SUFFICES ASSUME FeedInv', WholeInv, [Next]_vars PROVE WholeInv'
    OBVIOUS
  <2>1. CASE Next
    BY <2>1, SlotsFit, SizesKept, SinglesKept, ValidKept DEF WholeInv
  <2>2. CASE UNCHANGED vars
    <3>1. FilesFit' /\ SingleBatches'
      BY <2>2 DEF vars, WholeInv, FilesFit, SingleBatches
    <3>2. SizesFit'
      BY <2>2 DEF vars, WholeInv, SizesFit, OpenSize, Turning, Feed
    <3>3. FeedsAreValid'
      BY <2>2 DEF vars, WholeInv, FeedsAreValid, Valid
    <3> QED BY <3>1, <3>2, <3>3 DEF WholeInv
  <2> QED BY <2>1, <2>2
<1> QED BY <1>1, <1>2, FeedInvHolds, PTL DEF Spec

LEMMA PrefixOf ==
    ASSUME NEW S, NEW x \in Seq(S), NEW y \in Seq(S)
    PROVE  IsPrefix(x, x \o y) /\ IsPrefix(x, x)
<1> DEFINE xy == x \o y
           n == Len(x)
           p == SubSeq(xy, 1, n)
           q == SubSeq(x, 1, n)
<1>1. /\ xy \in Seq(S) /\ n \in Nat /\ Len(y) \in Nat /\ Len(xy) = n + Len(y)
      /\ \A k \in 1..n : xy[k] = x[k] /\ x[k] \in S
  BY ConcatProperties
<1>2. q = x
  BY SubSeqFull
<1> HIDE DEF xy
<1>3. p \in Seq(S) /\ Len(p) = n /\ \A k \in 1..n : p[k] = x[k]
  <2>1. 1 \in Int /\ n \in Int /\ \A k \in 1..n : xy[k] \in S
    BY <1>1
  <2>2. /\ p \in Seq(S) /\ Len(p) = IF 1 <= n THEN n - 1 + 1 ELSE 0
        /\ \A k \in 1..(n - 1 + 1) : p[k] = xy[1 + k - 1]
    BY <2>1, SubSeqProperties
  <2> HIDE DEF p
  <2> QED BY <1>1, <2>2
<1>4. p = x
  <2> HIDE DEF p
  <2> QED BY <1>1, <1>3, SeqEqual
<1>5. n <= Len(xy) /\ n <= n
  BY <1>1
<1> QED BY <1>2, <1>4, <1>5 DEF IsPrefix, xy

\* What may be at a target is the earlier documents alone, or they and more.
LEMMA CutsAre ==
    ASSUME NEW kept, NEW s \in SlotRecords, NEW c \in Cuts(Before, kept, s.file) \cup Cuts(Before, kept, s.stored)
    PROVE  c = Before \/ \E x \in Seq(Marks) : c = kept \o x
<1>1. ASSUME NEW d \in Seq(Marks), NEW n \in 0..Len(d) PROVE SubSeq(d, 1, n) \in Seq(Marks)
  <2>1. n \in Int /\ 1 \in Int /\ \A k \in 1..n : d[k] \in Marks
    <3>1. Len(d) \in Nat /\ \A k \in 1..Len(d) : d[k] \in Marks
      OBVIOUS
    <3> QED BY <3>1
  <2> QED BY <2>1, SubSeqProperties
<1>2. s.file \in Seq(Marks) /\ s.stored \in Seq(Marks)
  BY DEF SlotRecords
<1> QED BY <1>1, <1>2 DEF Cuts

LEMMA EarlierKept ==
    ASSUME NEW scheme, NEW overwrite \in BOOLEAN, NEW s \in SlotRecords, Keeps(scheme, overwrite),
           NEW c \in Target(scheme, overwrite, s)
    PROVE  IsPrefix(Before, c)
<1>1. s.file \in Seq(Marks) /\ s.stored \in Seq(Marks)
  BY DEF SlotRecords
<1>2. c \in InPlace(Before, s) \/ (scheme = "ftp" /\ c \in FTPFeed(FALSE, s))
  BY DEF Keeps, Target, FileFeed, StdoutFeed
<1>3. c = Before \/ \E x \in Seq(Marks) : c = Before \o x
  <2>1. \/ c \in Cuts(Before, Before, s.file) \cup Cuts(Before, Before, s.stored)
        \/ c \in {Before \o s.file, Before \o s.stored, Before}
    <3>1. CASE c \in InPlace(Before, s)
      BY <3>1 DEF InPlace
    <3>2. CASE c \in FTPFeed(FALSE, s)
      BY <3>2 DEF FTPFeed
    <3> QED BY <1>2, <3>1, <3>2
  <2>2. CASE c \in Cuts(Before, Before, s.file) \cup Cuts(Before, Before, s.stored)
    BY <2>2, CutsAre
  <2>3. CASE c \in {Before \o s.file, Before \o s.stored, Before}
    BY <1>1, <2>3
  <2> QED BY <2>1, <2>2, <2>3
<1> DEFINE S == Range(Before) \cup Marks
<1>4. Before \in Seq(S) /\ \A x \in Seq(Marks) : x \in Seq(S)
  <2>1. Before \in Seq(Range(Before))
    BY ONLY FeedAssumption
  <2>2. Range(Before) \subseteq S /\ Marks \subseteq S
    BY ONLY DEF S
  <2> HIDE DEF S
  <2> QED BY <2>1, <2>2, SeqMonotonic
<1> HIDE DEF S
<1>5. CASE c = Before
  BY <1>4, <1>5, PrefixOf
<1>6. ASSUME NEW x \in Seq(Marks), c = Before \o x PROVE IsPrefix(Before, c)
  BY <1>4, <1>6, PrefixOf
<1> QED BY <1>3, <1>5, <1>6

FeedOptions == [format : STRING, scheme : STRING, overwrite : BOOLEAN, numbered : BOOLEAN]

\* What has been stored is at the target, behind what the target keeps.
LEMMA StoredIsThere ==
    ASSUME NEW f, NEW o \in FeedOptions, o.scheme \in Schemes,
           NEW s \in SlotRecords, SlotFits(f, o, s), s.success = TRUE
    PROVE  IF Keeps(o.scheme, o.overwrite)
           THEN Target(o.scheme, o.overwrite, s) = {Before \o s.stored}
           ELSE Target(o.scheme, o.overwrite, s) \in {{s.stored}, {<<>> \o s.stored}}
<1> USE DEF FeedOptions
<1>1. o.scheme \in {"file", "stdout"} => s.file = s.stored
  BY DEF SlotFits, StoredFits, Blocking
<1>2. CASE o.scheme = "file"
  BY <1>1, <1>2 DEF Keeps, Target, FileFeed, InPlace
<1>3. CASE o.scheme = "stdout"
  BY <1>1, <1>3 DEF Keeps, Target, StdoutFeed, InPlace
<1>4. CASE o.scheme = "s3"
  BY <1>4 DEF Keeps, Target, S3Feed
<1>5. CASE o.scheme = "gs"
  BY <1>5 DEF Keeps, Target, GCSFeed
<1>6. CASE o.scheme = "ftp"
  BY <1>6 DEF Keeps, Target, FTPFeed
<1> QED BY <1>2, <1>3, <1>4, <1>5, <1>6 DEF Schemes, Blocking

WholeTarget(o, s) ==
    \E n \in 0..Len(s.items) :
        {Outline(content) : content \in Target(o.scheme, o.overwrite, s)} =
            {(IF Keeps(o.scheme, o.overwrite) THEN Outline(Before) ELSE <<>>)
                 \o Document(o.format, SubSeq(s.items, 1, n))}

LEMMA TargetIsWhole ==
    ASSUME NEW f, NEW o \in FeedOptions, o.scheme \in Schemes,
           NEW s \in SlotRecords, SlotFits(f, o, s), s.success = TRUE
    PROVE  WholeTarget(o, s)
<1>1. PICK n \in 0..Len(s.items) :
         Outline(s.stored) = Document(o.format, SubSeq(s.items, 1, n))
  BY DEF SlotFits, StoredFits
<1> DEFINE target == Target(o.scheme, o.overwrite, s)
           keeps == Keeps(o.scheme, o.overwrite)
           document == Document(o.format, SubSeq(s.items, 1, n))
           S == Range(Before) \cup Marks
<1>2. IF keeps THEN target = {Before \o s.stored}
      ELSE target \in {{s.stored}, {<<>> \o s.stored}}
  BY StoredIsThere
<1>3. s.stored \in Seq(Marks)
  BY DEF SlotRecords
<1>4. Before \in Seq(S) /\ s.stored \in Seq(S)
  <2>1. Before \in Seq(Range(Before))
    BY ONLY FeedAssumption
  <2>2. Range(Before) \subseteq S /\ Marks \subseteq S
    BY ONLY DEF S
  <2> HIDE DEF S
  <2> QED BY <1>3, <2>1, <2>2, SeqMonotonic
<1>5. Outline(Before \o s.stored) = Outline(Before) \o Outline(s.stored)
  <2> HIDE DEF S
  <2> QED BY <1>4, OutlineConcat
<1>6. Outline(s.stored) = document /\ document \in Seq(Vocabulary)
  BY <1>1, <1>3, FileWords
<1>7. <<>> \o s.stored = s.stored
  BY <1>3, MarksConcat
<1> HIDE DEF target, keeps, document
<1>8. <<>> \o document = document
  BY <1>6, ConcatEmptySeq
<1>9. {Outline(content) : content \in target} =
         {(IF keeps THEN Outline(Before) ELSE <<>>) \o document}
  <2>1. CASE ~keeps
    <3>1. target = {s.stored}
      BY <1>2, <1>7, <2>1
    <3> QED BY <1>6, <1>8, <2>1, <3>1
  <2>2. CASE keeps
    <3>1. target = {Before \o s.stored}
      BY <1>2, <2>2
    <3> QED BY <1>5, <1>6, <2>2, <3>1
  <2> QED BY <2>1, <2>2
<1> QED BY <1>9 DEF target, keeps, document, WholeTarget

\* The rows of a CSV file are of the columns of its headers.
LEMMA RowsAre ==
    ASSUME NEW f, NEW o, NEW s \in SlotRecords, SlotFits(f, o, s), o.format = "csv"
    PROVE  RowsLineUp(f, s.file)
<1> DEFINE first == s.items[1]
           columns == Columns(f, first)
<1> SUFFICES ASSUME NEW h \in DOMAIN s.file, NEW n \in DOMAIN s.file,
                    s.file[h].mark = "headers", s.file[n].mark = "item"
             PROVE  /\ DOMAIN s.file[n].row = DOMAIN s.file[h].row
                    /\ \A k \in DOMAIN s.file[n].row :
                          /\ s.file[n].row[k].output = s.file[h].row[k].output
                          /\ s.file[n].row[k].empty =>
                                \A field \in Populated[s.file[n].item] :
                                    Detects(f) => field # s.file[n].row[k].output
  BY DEF RowsLineUp
<1>1. s.file \in Seq(Marks) /\ s.held \in Seq(Marks)
  BY DEF SlotRecords
<1>2. ToSet(Contents(s)) = ToSet(s.file) \cup ToSet(s.held)
  BY <1>1, SetOfJoined DEF Contents
<1>3. s.file[h] \in ToSet(Contents(s)) /\ s.file[n] \in ToSet(Contents(s))
  BY <1>2 DEF ToSet
<1>4. s.file[h] \in RowsOf(f, first) /\ s.file[n] \in RowsOf(f, first)
  BY <1>3 DEF SlotFits, RowsFit
<1>a. \A m \in RowsOf(f, first) :
         m = Headers(columns) \/ \E i \in Items : m = Written(i, columns, TRUE)
  BY DEF RowsOf
<1>b. Headers(columns).mark = "headers" /\ \A i : Written(i, columns, TRUE).mark = "item"
  BY DEF Headers, Written
<1>5. s.file[h] = Headers(columns)
  BY <1>4, <1>a, <1>b
<1>6. PICK i \in Items : s.file[n] = Written(i, columns, TRUE)
  BY <1>4, <1>a, <1>b
<1>7. s.file[h].row = [k \in DOMAIN columns |-> [output |-> columns[k].output, empty |-> FALSE]]
  BY <1>5 DEF Headers
<1>8. /\ s.file[n].item = i
      /\ s.file[n].row = [k \in DOMAIN columns |->
             [output |-> columns[k].output, empty |-> columns[k].name \notin Populated[i]]]
  BY <1>6 DEF Written, SerializedFields
<1>9. ASSUME Detects(f), NEW k \in DOMAIN columns PROVE columns[k].name = columns[k].output
  <2>1. columns = [l \in DOMAIN FieldNames[first] |->
                      [name |-> FieldNames[first][l], output |-> FieldNames[first][l]]]
    BY <1>9 DEF Columns, Own
  <2> HIDE DEF columns
  <2> QED BY <1>9, <2>1
<1> HIDE DEF columns
<1> DEFINE top == s.file[h].row
           row == s.file[n].row
<1>10. DOMAIN top = DOMAIN columns /\ DOMAIN row = DOMAIN columns
  BY <1>7, <1>8
<1>11. ASSUME NEW k \in DOMAIN columns
       PROVE  /\ row[k].output = top[k].output
              /\ row[k].empty =>
                    \A field \in Populated[i] : Detects(f) => field # row[k].output
  <2>1. /\ row[k].output = columns[k].output /\ top[k].output = columns[k].output
        /\ row[k].empty = (columns[k].name \notin Populated[i])
    BY <1>7, <1>8
  <2> HIDE DEF row, top
  <2> QED BY <1>9, <2>1
<1> HIDE DEF row, top
<1>12. \A k \in DOMAIN row :
          /\ row[k].output = top[k].output
          /\ row[k].empty =>
                \A field \in Populated[s.file[n].item] : Detects(f) => field # row[k].output
  BY <1>8, <1>10, <1>11
<1> QED BY <1>10, <1>12 DEF row, top

\* A feed writes no two of its batches to one target.
LEMMA TargetsAreApart ==
    ASSUME WholeInv, NEW b \in Batches, NEW c \in Batches,
           slot[b].told > 0, slot[c].told > 0, Uri(b) = Uri(c)
    PROVE  b = c
<1> USE DEF WholeInv, FeedInv
<1>1. /\ b[1] \in FeedNames /\ b[2] \in Nat \ {0} /\ b = <<b[1], b[2]>>
      /\ c[1] \in FeedNames /\ c[2] \in Nat \ {0} /\ c = <<c[1], c[2]>>
  BY Lengths
<1>2. phase \in {"open", "closing", "closed"} /\ \A f \in FeedNames : Valid(f)
  <2>1. slot[b] # NewSlot
    BY DEF NewSlot
  <2> QED BY <2>1 DEF FeedsAreValid
<1>3. ASSUME NEW d \in Batches, slot[d].told > 0, d[1] \in FeedNames, d[2] \in Nat \ {0},
             ~feeds[d[1]].numbered
      PROVE  d[2] = 1
  <2>1. BatchSize[d[1]] = 0
    <3>1. BatchSize[d[1]] \in Nat
      BY <1>3, FeedAssumption
    <3> QED BY <1>2, <1>3, <3>1 DEF Valid
  <2>2. slots[d[1]] = 1
    BY <1>3, <2>1 DEF SingleBatches
  <2>3. slot[d].closes > 0 /\ slot[d].told \in Nat /\ slot[d].closes \in Nat
    <3>1. slot[d].told \in Nat /\ slot[d].closes \in Nat
      BY DEF FeedTypeOK, SlotRecords
    <3>2. slot[d].told = 1
      <4>1. slot[d].told <= 1
        BY DEF ClosesAreKept
      <4> QED BY <1>3, <3>1, <4>1
    <3> QED BY <3>1, <3>2 DEF ClosesAreKept
  <2>4. ~(d[2] > slots[d[1]])
    BY <2>3 DEF BatchesInOrder, BehindAndAhead
  <2> QED BY <1>3, <2>2, <2>4
<1>4. \A x, y, z : <<x, y>> # <<z>>
  <2> SUFFICES ASSUME NEW x, NEW y, NEW z, <<x, y>> = <<z>> PROVE FALSE
    OBVIOUS
  <2>1. Len(<<x, y>>) = 2 /\ Len(<<z>>) = 1
    OBVIOUS
  <2> QED BY <2>1
<1>5. CASE feeds[b[1]].numbered /\ feeds[c[1]].numbered
  BY <1>5 DEF Uri
<1>6. CASE ~feeds[b[1]].numbered /\ ~feeds[c[1]].numbered
  <2>1. b[2] = 1 /\ c[2] = 1
    BY <1>1, <1>3, <1>6
  <2>2. <<b[1]>> = <<c[1]>>
    BY <1>6 DEF Uri
  <2> QED BY <1>1, <2>1, <2>2
<1>7. CASE feeds[b[1]].numbered /\ ~feeds[c[1]].numbered
  BY <1>1, <1>4, <1>7 DEF Uri
<1>8. CASE ~feeds[b[1]].numbered /\ feeds[c[1]].numbered
  BY <1>1, <1>4, <1>8 DEF Uri
<1> QED BY <1>5, <1>6, <1>7, <1>8

\* At a target is a whole document, behind the earlier ones where the storage keeps them, and no
\* target is that of two batches; a storage is given a whole document of the first items of its
\* batch, in CSV with rows that line up with the headers, and a batch that the next one has replaced
\* is full (_export_item, _close_slot, the exporters and the storages).
THEOREM BatchesStayWhole == Spec => []BatchesAreWhole
<1>1. ASSUME WholeInv PROVE BatchesAreWhole
  <2> USE <1>1 DEF WholeInv
  <2>1. ASSUME NEW b \in Batches
        PROVE  /\ b[1] \in FeedNames /\ slot[b] \in SlotRecords
               /\ SlotFits(b[1], feeds[b[1]], slot[b])
               /\ feeds[b[1]] \in FeedOptions
               /\ slot[b].success => feeds[b[1]].scheme \in Schemes
    <3>1. b[1] \in FeedNames /\ slot[b] \in SlotRecords /\ feeds \in Layouts
      BY Lengths DEF FeedInv, FeedTypeOK
    <3>2. feeds[b[1]] \in FeedOptions
      BY <3>1, FeedAssumption DEF FeedOptions
    <3>3. slot[b].success => slot[b] # NewSlot
      BY DEF NewSlot
    <3>4. slot[b].success => feeds[b[1]].scheme \in Schemes
      BY <3>1, <3>3 DEF FeedsAreValid, Valid
    <3> QED BY <3>1, <3>2, <3>4 DEF FilesFit
  <2>2. TargetsAreWhole
    <3> SUFFICES ASSUME NEW b \in Batches
                 PROVE  LET o == feeds[b[1]]
                            keeps == Keeps(o.scheme, o.overwrite)
                            target == Target(o.scheme, o.overwrite, slot[b]) IN
                        /\ slot[b].success => \E n \in 0..Len(slot[b].items) :
                              {Outline(content) : content \in target} =
                                  {(IF keeps THEN Outline(Before) ELSE <<>>)
                                       \o Document(o.format, SubSeq(slot[b].items, 1, n))}
                        /\ keeps => \A content \in target : IsPrefix(Before, content)
                        /\ \A c \in Batches :
                              slot[b].told > 0 /\ slot[c].told > 0 /\ Uri(b) = Uri(c) => b = c
      BY DEF TargetsAreWhole
    <3> DEFINE o == feeds[b[1]]
               s == slot[b]
    <3>1. /\ o \in FeedOptions /\ o.overwrite \in BOOLEAN
          /\ s \in SlotRecords /\ SlotFits(b[1], o, s) /\ s.success \in BOOLEAN
          /\ s.success => o.scheme \in Schemes
      BY <2>1 DEF FeedOptions, SlotRecords
    <3>2. \A c \in Batches : slot[b].told > 0 /\ slot[c].told > 0 /\ Uri(b) = Uri(c) => b = c
      BY <1>1, TargetsAreApart
    <3> HIDE DEF o, s
    <3>3. s.success => WholeTarget(o, s)
      BY <3>1, TargetIsWhole
    <3>4. Keeps(o.scheme, o.overwrite) =>
             \A content \in Target(o.scheme, o.overwrite, s) : IsPrefix(Before, content)
      BY <3>1, EarlierKept
    <3> QED BY <3>1, <3>2, <3>3, <3>4 DEF o, s, WholeTarget
  <2>3. ASSUME NEW b \in Batches
        PROVE  /\ slot[b].success => \E n \in 0..Len(slot[b].items) :
                     Outline(slot[b].stored) =
                         Document(feeds[b[1]].format, SubSeq(slot[b].items, 1, n))
               /\ feeds[b[1]].format = "csv" => RowsLineUp(b[1], slot[b].file)
               /\ b[1] \notin unrotated /\ BatchSize[b[1]] > 0 =>
                     /\ Len(slot[b].items) <= BatchSize[b[1]]
                     /\ b[2] < slots[b[1]] => Len(slot[b].items) = BatchSize[b[1]]
    <3> DEFINE o == feeds[b[1]]
               s == slot[b]
    <3>1. s \in SlotRecords /\ SlotFits(b[1], o, s)
      BY <2>1
    <3> HIDE DEF o, s
    <3>2. s.success => \E n \in 0..Len(s.items) :
             Outline(s.stored) = Document(o.format, SubSeq(s.items, 1, n))
      BY <3>1 DEF SlotFits, StoredFits
    <3>3. o.format = "csv" => RowsLineUp(b[1], s.file)
      BY <3>1, RowsAre
    <3>4. b[1] \notin unrotated /\ BatchSize[b[1]] > 0 =>
             /\ Len(slot[b].items) <= BatchSize[b[1]]
             /\ b[2] < slots[b[1]] => Len(slot[b].items) = BatchSize[b[1]]
      BY <2>1 DEF SizesFit
    <3> QED BY <3>2, <3>3, <3>4 DEF o, s
  <2> QED BY <2>2, <2>3 DEF BatchesAreWhole
<1> QED BY <1>1, WholeInvHolds, PTL
=============================================================================
