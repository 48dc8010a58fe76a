CONSTANTS
  TableWidth = 2
  Widths = {1, 2, 3}
  Cells = {"good", "refused", "native", "oversized", "null"}
  BatchSize = 2
  ArrowLoads <- MCArrowLoads
  MaxOffered = 3
  NoWidth = NoWidth
SPECIFICATION Spec
INVARIANTS TypeOK LoadedExactly OnlyAccepted InputErrorsNamed
PROPERTY UnsentIsFree
