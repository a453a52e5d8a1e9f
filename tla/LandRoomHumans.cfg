\* Humans only, two of them at one address: queueing, blockers, retirement.
CONSTANTS
  h1 = h1
  h2 = h2
  h3 = h3
  h4 = h4
  r1 = r1
  r2 = r2
  Humans = {h1, h2, h3}
  Robots = {}
  Nobody = Nobody
  IP <- SharedIP
  SeatNum = 2
  TableNum = 1
  MaxTables = 7
  RobotCfg = FALSE
  AddBlockersOn = TRUE
  ScoreClasses = {"within"}
SPECIFICATION FairSpec
INVARIANTS
  NoAvoidedGame
  TablesBounded
PROPERTIES
  NobodyForgotten
  WaitingServed
