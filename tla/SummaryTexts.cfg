SPECIFICATION Spec
CONSTANTS
  Panic = Panic
  MaxAbstract = 5
  MaxOverview = 21
  Meaningful = 4
  Piece <- MCPiece
  MaxPieces = 4
INVARIANTS WithinLimits SentencesAreABeginning ListsWhatFits
CHECK_DEADLOCK FALSE
