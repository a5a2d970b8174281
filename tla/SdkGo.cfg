CONSTANTS
    Flag = {f1, f2}
    Broken = {f2}
    Starter = {s1, s2}
    Reader = {r1}
    Polling = TRUE
    MaxVersion = 2
SPECIFICATION Spec
INVARIANTS
    DecisionsAreConsistent
PROPERTIES
    NeverRegresses
    ServesWholeSnapshots
