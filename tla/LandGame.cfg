\* One human and two robots, a room that takes a share of what is won, and
\* controls that may deal behind the last chair.
CONSTANTS
  Cards <- MCCards
  Combos <- MCCombos
  Bombs <- MCBombs
  Beats <- MCBeats
  Lowest <- MCLowest
  Shuffles <- MCShuffles
  Purses <- MCPurses
  Controlled = {0, 1}
  Robots = {1, 2}
  TopBid = 2
  BaseScore = 3
  FeeType = "win"
  FeeValue = 1500
SPECIFICATION FairSpec
INVARIANTS
  TypeOK
  DeckWhole
  TurnSound
  NoThirdWait
PROPERTIES
  CoinsKept
  GameEnds
