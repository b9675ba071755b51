SPECIFICATION Spec
CONSTANTS
  Executions = {e1, e2}
  Nobody = nobody
  Requests = 2
  Confirmations = 2
  Elsewhere = 1
  MaximumPolls = 2
  MaxBlocks = 3
  MaxForks = 1
SYMMETRY Alike
INVARIANT TypeOK
INVARIANT SentWhereItWasChecked
INVARIANT ReportIsFinal
CHECK_DEADLOCK FALSE
