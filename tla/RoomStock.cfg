SPECIFICATION FairSpec
CONSTANTS
    t1 = t1
    t2 = t2
    Tables = {t1, t2}
    Scores <- MCScores
    Fees = {1}
    Row0 <- MCRow0
    Requests <- MCRequests
    Paths = {"lobby", "dispatch"}
    MaxRounds = 2
    MaxChanges = 1
    MaxLives = 2
INVARIANTS TypeOK MemoryIsRow StopSavesAll
PROPERTIES StockFloor ControlledRoundKeepsJackpot StopEnds
CHECK_DEADLOCK FALSE
