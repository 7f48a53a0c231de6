---------------------------- MODULE MCFeedExport ----------------------------
(* FeedExport on three items and two feeds, one uploaded and one compressed. *)
EXTENDS FeedExport
CONSTANTS f1, f2, i1, i2, i3

MCFeeds == <<f1, f2>>
MCItems == {i1, i2, i3}
MCClassOf == (i1 :> "product") @@ (i2 :> "product") @@ (i3 :> "review")
MCItemClasses == (f1 :> {}) @@ (f2 :> {"product"})
MCBatchSize == (f1 :> 2) @@ (f2 :> 1)
MCStoreEmpty == {f1, f2}
MCCompressed == {f2}
MCBefore == <<Mark("earlier")>>

\* A product without a price, and a review with fields of its own.
MCFieldNames ==
    (i1 :> <<"name", "price">>) @@ (i2 :> <<"name", "price">>) @@ (i3 :> <<"stars", "name">>)
MCPopulated == (i1 :> {"name", "price"}) @@ (i2 :> {"price"}) @@ (i3 :> {"stars", "name"})
MCFieldsOption == (f1 :> {}) @@ (f2 :>
    {<<[name |-> "price", output |-> "cost"], [name |-> "name", output |-> "name"]>>})

Options(format, scheme, overwrite, numbered) ==
    [format |-> format, scheme |-> scheme, overwrite |-> overwrite, numbered |-> numbered]

\* The last three are not valid: a format, a scheme and a uri without the number of the batch.
MCLayouts == {
    f1 :> Options("json", "s3", TRUE, TRUE) @@ f2 :> Options("csv", "file", TRUE, TRUE),
    f1 :> Options("jsonlines", "ftp", FALSE, TRUE) @@ f2 :> Options("xml", "stdout", TRUE, TRUE),
    f1 :> Options("csv", "gs", FALSE, TRUE) @@ f2 :> Options("json", "file", FALSE, TRUE),
    f1 :> Options("yaml", "s3", TRUE, TRUE) @@ f2 :> Options("csv", "file", TRUE, TRUE),
    f1 :> Options("json", "smb", TRUE, TRUE) @@ f2 :> Options("csv", "file", TRUE, TRUE),
    f1 :> Options("json", "s3", TRUE, FALSE) @@ f2 :> Options("csv", "file", TRUE, TRUE)}
=============================================================================
