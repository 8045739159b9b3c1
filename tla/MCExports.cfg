SPECIFICATION FairSpec
CONSTANTS
  x1 = x1
  x2 = x2
  w1 = w1
  w2 = w2
  Workers = {w1, w2}
  Exports = {x1, x2}
  MaxStalls = 1
  MaxFaults = 1
  MaxVerdicts = 1
INVARIANTS ReadyIsDownloadable CompletedHasUrl RunsAreBounded
PROPERTIES FailedStaysFailed EveryExportIsAnswered
