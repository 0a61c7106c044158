SPECIFICATION Spec
CONSTANTS
  Request = {"r1", "r2"}
  Endpoint = {"list"}
  MaxCredentials = 2
  MaxVersions = 1
  MaxJobs = 0
  Overlap = TRUE
INVARIANTS
  ActiveIsVerified
CHECK_DEADLOCK FALSE
