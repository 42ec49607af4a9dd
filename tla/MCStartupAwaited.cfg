SPECIFICATION StartupFairSpec
CONSTANTS
    map1 = map1
    map2 = map2
    noFile = noFile
    seed = seed
    rules1 = rules1
    rules2 = rules2
    None = None
    Maps = {map1, noFile}
    Seeds = {seed}
    Rules = {rules1, rules2}
    Map <- Maps
    Seed <- Seeds
    Param <- Rules
    Bench <- MCBench
    Unreadable <- MCUnreadable
    Unbuildable = {}
    FirstMap = map1
    FirstParam = rules1
    LocalBench = 10
    NetworkBench = 20
    QuickStart = FALSE
    MaxMenus = 4
PROPERTIES
    AwaitedGameStarts
