SPECIFICATION FairSpec
CONSTANTS
    g1 = g1
    l1 = l1
    GameSvrs = {g1}
    Lobbies = {l1}
    Master = {}
    Config0 = {}
    MaxLinks = 2
    MaxFaults = 2
    MaxRetires = 1
INVARIANTS TypeOK EntriesLive RunMeansRegistered RetireGiven
PROPERTIES Reregisters
CHECK_DEADLOCK FALSE
