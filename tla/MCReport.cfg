\* Up to two variables, shadowed or not, two values that look alike, one line
\* per report, one expression watched twice.
CONSTANTS
  Names = {"x", "y"}
  Values = {1, 2, 3}
  Shown <- MCShown
  MaxLocals = 2
  MaxLines = 1
  Exprs = {"e", "f"}
  MaxWatch = 2
SPECIFICATION Spec
INVARIANTS IInv ReaderKnows WatchesKept
PROPERTIES QuietWhenSame
