SPECIFICATION Spec
CONSTANTS
    Scenarios <- MCScenarios
    PageSize = 1
    MaxEvents = 6
    TraceNode <- MCTraceNode
    DefaultLimit = 4
INVARIANTS
    SurfacesAgree
    BackendsAgree
    WritesAreReadable
    EventsAreFound
    PagesAreComplete
    ToolsAgree
