CONSTANTS
    Lobbies = {l1, l2}
    NoLobby = NoLobby
    Master = NoLobby
    Conns = {c1, c2}
    NoConn = NoConn
    NParts = 2
    MaxEvents = 3

SPECIFICATION Spec
INVARIANTS TypeOK SessionsAgree OneServes RecordKept
PROPERTIES NothingStuck EndsWithOne
CHECK_DEADLOCK FALSE
