SPECIFICATION FairSpec
CONSTANTS
    map1 = map1
    noFile = noFile
    noGame = noGame
    seed = seed
    rules1 = rules1
    rules2 = rules2
    None = None
    Map <- MCMap
    Seed <- MCSeed
    Param <- MCParam
    Bench <- MCBench
    Unreadable <- MCUnreadable
    Unbuildable <- MCUnbuildable
INVARIANTS
    TypeOK
    OnlyTheLastRequest
    OnePlace
PROPERTIES
    Delivers
    GameComes
    FreeReturns
