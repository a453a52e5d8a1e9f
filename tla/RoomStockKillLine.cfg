SPECIFICATION Spec
CONSTANTS
    t1 = t1
    Tables = {t1}
    Scores <- MCScores
    Fees = {1}
    Row0 <- MCRow0
    Requests <- MCRequests
    Paths = {"dispatch"}
    MaxRounds = 1
    MaxChanges = 1
    MaxLives = 1
INVARIANTS KillLineTold
CHECK_DEADLOCK FALSE
