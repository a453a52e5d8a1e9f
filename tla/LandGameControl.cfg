\* The controls may set any player to lose.
CONSTANTS
  Cards <- MCCards
  Combos <- MCCombos
  Bombs <- MCBombs
  Beats <- MCBeats
  Lowest <- MCLowest
  Shuffles <- MCShuffles
  Purses <- MCPurses
  Controlled = {0, 1, 2}
  Robots = {}
  TopBid = 2
  BaseScore = 3
  FeeType = "win"
  FeeValue = 1500
SPECIFICATION Spec
INVARIANTS
  GoodCardsToPlayer
