SPECIFICATION Spec
CONSTANTS
  s1 = s1
  s2 = s2
  t1 = t1
  t2 = t2
  NoTxn = NoTxn
  Stmts <- TwoStmts
  Txns <- TwoTxns
  MaxEpoch = 1
  Serialised = FALSE
  Faults = FALSE
CHECK_DEADLOCK FALSE
SYMMETRY Symmetry
INVARIANTS SettledFreesSession NoInheritedVerdict DisconnectLeavesNothing
PROPERTY ImplementsContract
