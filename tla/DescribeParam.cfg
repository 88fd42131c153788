SPECIFICATION Spec
CONSTANTS
  t1 = t1
  t2 = t2
  one = one
  two = two
  Threads <- MCThreads
  Sqls <- MCSqls
  NumParams <- MCNumParams
  MaxNumber = 2
  NoSql = NoSql
  NoThread = NoThread
INVARIANTS TypeOK AnswerFitsQuestion AbortIsReported
PROPERTIES LockIsReleased
