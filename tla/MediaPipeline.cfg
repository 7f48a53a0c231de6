CONSTANTS
    pdf = pdf
    png = png
    product = product
    offer = offer
    r1 = r1
    r2 = r2
    r3 = r3
    Items = {product, offer}
    Files = {pdf, png}
    Requests = {r1, r2, r3}
    ItemOf <- MCItemOf
    FileOf <- MCFileOf
    Errback <- MCErrback
    Parts <- MCParts
    Permits = 1
    Configured = {"file", "s3", "gs", "ftp"}
    MaxCrawls = 2
SPECIFICATION Spec
CHECK_DEADLOCK FALSE
INVARIANTS
    OneDownload
    OneResult
    ReportedIsStored
PROPERTIES
    ItemsEnd
