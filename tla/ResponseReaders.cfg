\* Every well-formed response of up to MaxTokens tokens, and every way to read it.
SPECIFICATION Spec
CONSTANTS
  MaxTokens = 6
  None = None
INVARIANTS TypeOK NothingLost RowsDescribed SetsKept ResultsComplete ErrorOnce
PROPERTIES ReadersEnd
CHECK_DEADLOCK FALSE
