CONSTANTS
  t1 = t1
  c1 = c1
  Transactions = {t1}
  Connections = {c1}
SPECIFICATION FairSpec
PROPERTY OperationEnds
CHECK_DEADLOCK FALSE
