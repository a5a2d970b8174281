CONSTANTS
    Flag = {f1}
    Broken = {}
    Main = main
    Starter = {main}
    Reader = {r1}
    Polling = TRUE
    MaxVersion = 2
SPECIFICATION ProxyFairSpec
PROPERTIES
    ProxyRecovers
CHECK_DEADLOCK FALSE
