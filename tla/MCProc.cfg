\* A ring of two lines, so that lines fall out before, at and after the
\* position of seen within six written lines.
CONSTANTS
  RingSize = 2
  PipeSize = 2
  MaxLines = 6
SPECIFICATION FairSpec
INVARIANTS TypeOK RingExact NoOrphan
PROPERTIES ImplementsLog SpawnReturns
CHECK_DEADLOCK FALSE
