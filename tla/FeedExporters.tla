--------------------------- MODULE FeedExporters ---------------------------
(***************************************************************************)
(* The item exporters (feedexport.py) and the postprocessing of a feed     *)
(* (feedpostprocessing.py): what each call writes to the file of a batch.  *)
(* A file is a sequence of items, each with the fields that are written of *)
(* it, and of the marks of its format.  Of a slot the exporters see the    *)
(* items exported so far, the file, what plugins hold back and exporting.  *)
(* The second part is the storages: what the target of a feed may hold     *)
(* while its batch is exported and stored.                                 *)
(***************************************************************************)
EXTENDS Naturals, Sequences

CONSTANTS
    Compressed,      \* the feeds with postprocessing plugins
    FieldNames,      \* of each item the fields that its class declares, or the keys of a dict
    Populated,       \* of each item the fields that have a value
    FieldsOption,    \* "fields" of each feed: {} for None, or {a sequence of [name, output]}
    Before           \* the document that an earlier crawl left at each target

\* Those whose file is the items one after the other.
Plain == {"jsonlines", "pickle", "marshal"}
Formats == Plain \cup {"json", "csv", "xml"}

\* Between two items of JSON.
Separator == ","

Mark(mark) == [mark |-> mark, item |-> "none", row |-> <<>>]

\* start_exporting
Opening(format) ==
    IF format = "json" THEN <<Mark("[")>> ELSE IF format = "xml" THEN <<Mark("<items>")>> ELSE <<>>

\* finish_exporting
Closing(format) ==
    IF format = "json" THEN <<Mark("]")>> ELSE IF format = "xml" THEN <<Mark("</items>")>> ELSE <<>>

-----------------------------------------------------------------------------
(* The fields of an item. *)

Own(i) == [k \in DOMAIN FieldNames[i] |->
    [name |-> FieldNames[i][k], output |-> FieldNames[i][k]]]

\* get_serialized_fields: a field without a value is left out, or is empty.
SerializedFields(i, fields, includeEmpty) ==
    LET HasValue(field) == field.name \in Populated[i]
        written == IF includeEmpty THEN fields ELSE SelectSeq(fields, HasValue)
    IN  [k \in DOMAIN written |->
            [output |-> written[k].output, empty |-> ~HasValue(written[k])]]

Written(i, fields, includeEmpty) ==
    [mark |-> "item", item |-> i, row |-> SerializedFields(i, fields, includeEmpty)]

FieldsOf(feed, i) ==
    IF FieldsOption[feed] = {} THEN Own(i) ELSE CHOOSE fields \in FieldsOption[feed] : TRUE

\* The first item of a CSV file makes the columns, if the feed names none.
Detects(feed) == FieldsOption[feed] \subseteq {<<>>}
Columns(feed, first) == IF Detects(feed) THEN Own(first) ELSE FieldsOf(feed, first)

Headers(columns) ==
    [mark |-> "headers", item |-> "none",
     row |-> [k \in DOMAIN columns |-> [output |-> columns[k].output, empty |-> FALSE]]]

-----------------------------------------------------------------------------

\* Mutant: a row of CSV has no cells for the fields without a value.
EntryRagged(feed, format, i, items) ==
    IF format = "csv"
    THEN LET columns == Columns(feed, IF items = <<>> THEN i ELSE items[1])
         IN  (IF items = <<>> THEN <<Headers(columns)>> ELSE <<>>) \o <<Written(i, columns, FALSE)>>
    ELSE IF format = "json" /\ items # <<>>
         THEN <<Mark(Separator), Written(i, FieldsOf(feed, i), FALSE)>>
    ELSE <<Written(i, FieldsOf(feed, i), FALSE)>>

\* export_item, after those in items.
Entry(feed, format, i, items) ==
    IF format = "csv"
    THEN LET columns == Columns(feed, IF items = <<>> THEN i ELSE items[1])
         IN  (IF items = <<>> THEN <<Headers(columns)>> ELSE <<>>) \o <<Written(i, columns, TRUE)>>
    ELSE IF format = "json" /\ items # <<>>
         THEN <<Mark(Separator), Written(i, FieldsOf(feed, i), FALSE)>>
    ELSE <<Written(i, FieldsOf(feed, i), FALSE)>>

\* A plugin lets its data through for certain only when it is closed.
Write(feed, s, marks) ==
    IF feed \in Compressed THEN [s EXCEPT !.held = @ \o marks] ELSE [s EXCEPT !.file = @ \o marks]

StartExporting(feed, format, s) ==
    IF s.exporting THEN s ELSE [Write(feed, s, Opening(format)) EXCEPT !.exporting = TRUE]

ExportItem(feed, format, s, i) ==
    LET entry == Entry(feed, format, i, s.items)
    IN  [Write(feed, StartExporting(feed, format, s), entry) EXCEPT !.items = Append(@, i)]

FinishExporting(feed, format, s) ==
    [Write(feed, StartExporting(feed, format, s), Closing(format)) EXCEPT !.exporting = FALSE]

\* storage_file closes the plugins.
StorageFile(s) == [s EXCEPT !.file = @ \o s.held, !.held = <<>>]

\* What a later item may still be written to when the storage has the file: store closes a local
\* file at once, a closed plugin and the detached streams of CSV and XML raise.
Writable(feed, format, blocking, storing) ==
    storing /\ blocking /\ feed \notin Compressed /\ format \in Plain \cup {"json"}

Outline(file) ==
    [n \in DOMAIN file |-> IF file[n].mark = "item" THEN file[n].item ELSE file[n].mark]

\* The reference: the outline of a document with these items.
Document(format, items) ==
    LET body[n \in 0..Len(items)] ==
            IF n = 0 THEN <<>>
            ELSE body[n - 1] \o (IF n > 1 /\ format = "json" THEN <<Separator>> ELSE <<>>) \o <<items[n]>>
        headers == IF format = "csv" /\ items # <<>> THEN <<"headers">> ELSE <<>>
    IN  Outline(Opening(format)) \o headers \o body[Len(items)] \o Outline(Closing(format))

\* The reference: in a CSV file every row has a cell for each header, in their order, and no cell
\* is empty that its item has a value for.
RowsLineUp(feed, file) ==
    \A h, n \in DOMAIN file :
        file[h].mark = "headers" /\ file[n].mark = "item" =>
            LET row == file[n].row IN
            /\ DOMAIN row = DOMAIN file[h].row
            /\ \A k \in DOMAIN row :
                  /\ row[k].output = file[h].row[k].output
                  /\ row[k].empty =>
                        \A field \in Populated[file[n].item] :
                            Detects(feed) => field # row[k].output

-----------------------------------------------------------------------------
(* The storages.  A local file is written in place, the others get the temporary file of the
   batch at its end. *)

Blocking == {"s3", "gs", "ftp"}
Schemes == Blocking \cup {"file", "stdout"}

\* Begun, this far or less; a failure may have struck at any point of it.
Cuts(before, kept, document) ==
    {before} \cup {kept \o SubSeq(document, 1, n) : n \in 0..Len(document)}

InPlace(kept, s) ==
    IF s.failed /\ ~s.success THEN Cuts(Before, kept, s.file)
    ELSE IF s.exporting \/ s.storing \/ s.success THEN {kept \o s.file}
    ELSE {Before}

\* open("wb") or open("ab")
FileFeed(overwrite, s) == InPlace(IF overwrite THEN <<>> ELSE Before, s)

\* Standard output cannot be overwritten.
StdoutFeed(s) == InPlace(Before, s)

\* An object is replaced as a whole, also when overwrite is off.
S3Feed(s) == IF s.success THEN {s.stored} ELSE {Before}
GCSFeed(s) == IF s.success THEN {s.stored} ELSE {Before}

\* STOR or APPE
FTPFeed(overwrite, s) ==
    LET kept == IF overwrite THEN <<>> ELSE Before IN
    IF s.success THEN {kept \o s.stored}
    ELSE IF s.storing \/ s.failed THEN Cuts(Before, kept, s.stored)
    ELSE {Before}

Target(scheme, overwrite, s) ==
    CASE scheme = "file" -> FileFeed(overwrite, s)
      [] scheme = "stdout" -> StdoutFeed(s)
      [] scheme = "s3" -> S3Feed(s)
      [] scheme = "gs" -> GCSFeed(s)
      [] scheme = "ftp" -> FTPFeed(overwrite, s)

\* The reference: what the settings of the feed and the documentation of its storage promise.
Keeps(scheme, overwrite) == scheme = "stdout" \/ (scheme \in {"file", "ftp"} /\ ~overwrite)
=============================================================================
