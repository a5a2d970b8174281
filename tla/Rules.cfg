CONSTANTS
    plan = plan
    region = region
    s1 = s1
    s2 = s2
    Attr = {plan, region}
    Salt <- SomeSalts
    SegKey = {s1, s2}
    MaxValue = 2
    StackDepth = 4
    Hash <- SomeHash
    Bodies <- AcyclicBodies
    Requests <- SomeRequests
    Contexts <- SomeContexts
SPECIFICATION Spec
INVARIANTS
    StoredVersionsLoad
    InliningKeepsMeaning
    RuntimesAgree
    TraceAgrees
    ValidationForetells
