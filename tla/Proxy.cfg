CONSTANTS
    Flag = {f1}
    Broken = {}
    Main = main
    Starter = {main}
    Reader = {r1}
    Polling = TRUE
    MaxVersion = 2
SPECIFICATION ProxyFairSpec
PROPERTIES
    AnswersNeverGoBack
    LoopsEnd
    LoopsCatchUp
    NoLoopIsLeftBehind
    ProxyServes
CHECK_DEADLOCK FALSE
