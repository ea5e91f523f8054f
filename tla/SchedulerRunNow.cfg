CONSTANTS
  Job = {j1, j2}
  Proc = {p1}
  Outcome = {"Succeeded"}
  Fetch = 2
  Batch = 1
SPECIFICATION SafetySpec
CHECK_DEADLOCK FALSE
PROPERTY RunNowIsRun
