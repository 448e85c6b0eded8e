CONSTANTS
  t1 = t1
  t2 = t2
  c1 = c1
  Transactions = {t1, t2}
  Connections = {c1}
SYMMETRY TransactionSymmetry
SPECIFICATION Spec
INVARIANT NoForeignBytes
PROPERTY NoErrorAfterHead
CHECK_DEADLOCK FALSE
