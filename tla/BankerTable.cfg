CONSTANTS
    Players = {p1, p2, p3}
    Robots = {p3}
    NoPlayer = NoPlayer
    Coins0 = 3
    Base = 1
    MostTimes = 2
    Limit = 2
    JettonMin = 0
    JumpCost = 1
    High = 2
    FeePart = 2
    Stakes = {2}
    Jettons <- MCJettons
    Moves <- MCMoves
    MaxEvents = 4
SPECIFICATION Spec
INVARIANTS TypeOK QueueSound LocksPaidBack StakesBacked
PROPERTIES Served
