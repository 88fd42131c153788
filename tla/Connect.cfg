SPECIFICATION Spec
CONSTANTS
  Threads = {t1, t2}
  Attempts <- MCAttempts
  Answers <- MCAnswers
  MaxRevocations = 1
INVARIANTS TypeOK OneBrowserPerIdentity LoginIsOwn CredentialsNeedTLS FailureIsReported ZeroIsNoTimeout
PROPERTY LoginDeadlineBinds
