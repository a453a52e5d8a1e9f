CONSTANTS
    p1 = p1
    p2 = p2
    l1 = l1
    l2 = l2
    Players = {p1, p2}
    Lobbies = {l1, l2}
    NoLobby = NoLobby
    Null = Null
    Row0 <- MCRow0
    Gifts = {2}
    MinGift = 2
    Tax <- MCTax
    Results <- MCResults
    Issues <- MCIssues
    Boxes <- MCBoxes
    MaxEvents = 4
SPECIFICATION Spec
INVARIANTS TypeOK CopiesBehind UnderWayCounted
PROPERTIES LedgerSpec UnpaidNeedsApart
SYMMETRY Symmetric
CHECK_DEADLOCK FALSE
