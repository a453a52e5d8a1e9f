SPECIFICATION FairSpec
CONSTANTS
    g1 = g1
    l0 = l0
    l1 = l1
    GameSvrs = {g1}
    Lobbies = {l0, l1}
    Master = {}
    Config0 = {l0}
    MaxLinks = 2
    MaxFaults = 2
    MaxRetires = 1
INVARIANTS LobbiesKnown
CHECK_DEADLOCK FALSE
