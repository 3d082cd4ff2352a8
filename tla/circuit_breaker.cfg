CONSTANTS
  Callers = {h1, h2}
  Nobody = Nobody
  failure_threshold = 1
  success_threshold = 1
  max_attempts = 2
  MaxFailures = 1
SPECIFICATION FairSpec
CHECK_DEADLOCK FALSE
PROPERTIES
  FailsFast
