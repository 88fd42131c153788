SPECIFICATION Spec
CONSTANTS
  Threads = {t1}
  Attempts <- MCAttempts
  Answers <- MCAnswers
  MaxRevocations = 1
PROPERTY BrowserLoginHasItsOwnBudget
