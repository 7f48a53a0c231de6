\* Three items, batches of two for one feed and of one for the other, two uploads at a time.
CONSTANTS
    f1 = f1
    f2 = f2
    i1 = i1
    i2 = i2
    i3 = i3
    Feeds <- MCFeeds
    Items <- MCItems
    ClassOf <- MCClassOf
    ItemClasses <- MCItemClasses
    Before <- MCBefore
    FieldNames <- MCFieldNames
    Populated <- MCPopulated
    FieldsOption <- MCFieldsOption
    BatchSize <- MCBatchSize
    Layouts <- MCLayouts
    StoreEmpty <- MCStoreEmpty
    Compressed <- MCCompressed
    StorageConcurrency = 2
    MaxFaults = 2
SPECIFICATION Spec
CHECK_DEADLOCK FALSE
INVARIANTS
    StoredOrReported
    BatchesAreWhole
    ClosedIsComplete
PROPERTIES
    FeedsSettle
