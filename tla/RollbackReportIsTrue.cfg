SPECIFICATION Spec
CONSTANTS
  s1 = s1
  s2 = s2
  t1 = t1
  t2 = t2
  NoTxn = NoTxn
  Stmts <- TwoStmts
  Txns <- TwoTxns
  MaxEpoch = 2
  Serialised = TRUE
  Faults = FALSE
CHECK_DEADLOCK FALSE
PROPERTY RollbackReportIsTrue
