CONSTANTS
    plan = plan
    region = region
    s1 = s1
    s2 = s2
    Attr = {plan, region}
    Salt <- SomeSalts
    SegKey = {s1, s2}
    MaxValue = 2
    StackDepth = 4
    Hash <- SomeHash
    Bodies <- CyclicBodies
    Requests <- CyclicRequests
    Contexts <- SomeContexts
SPECIFICATION Spec
INVARIANT ResolutionEnds
CHECK_DEADLOCK FALSE
