SPECIFICATION AbandonedSpec
CONSTANTS
  e1 = e1
  e2 = e2
  c1 = c1
  c2 = c2
  None = None
  Execution <- TwoExecutions
  Prepared <- OnePrepared
  Generation = {1, 2}
  Connection <- TwoConnections
  HistoryLimit = 1
  MaxChanges = 2
  MaxExtra = 1
CHECK_DEADLOCK FALSE
PROPERTY WatermarkAdvances
