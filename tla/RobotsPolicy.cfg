CONSTANTS
    w1 = w1
    c1 = c1
    c2 = c2
    o1 = o1
    o2 = o2
    p1 = p1
    p2 = p2
    p3 = p3
    Workers <- MCWorkers
    Callers <- MCCallers
    Origins <- MCOrigins
    Pages <- MCPages
    OriginOf <- MCOriginOf
    Exempt <- MCExempt
    Concurrency = 1
    MaxHops = 1
SPECIFICATION Spec
INVARIANTS
    PolicyIsRespected
PROPERTY ChecksEnd
