\* Two humans and two robots at tables of three chairs.
CONSTANTS
  h1 = h1
  h2 = h2
  h3 = h3
  h4 = h4
  r1 = r1
  r2 = r2
  Humans = {h1, h2}
  Robots = {r1, r2}
  Nobody = Nobody
  IP <- OwnIP
  SeatNum = 3
  TableNum = 1
  MaxTables = 3
  RobotCfg = TRUE
  AddBlockersOn = FALSE
  ScoreClasses = {"within", "above"}
SPECIFICATION Spec
SYMMETRY Symm
INVARIANTS
  RoomInv
  OneOrAllHumans
PROPERTIES
  GameKeepsPlayers
