CONSTANTS
  Job = {j1, j2}
  Proc = {p1}
  Outcome = {"Succeeded", "Skipped", "Failed"}
  Fetch = 2
  Batch = 1
SPECIFICATION Spec
CHECK_DEADLOCK FALSE
INVARIANTS
  SchedulerTypeOK
  RecurringStaysScheduled
  SuccessIsFinal
PROPERTIES
  OneShotFiresOnce
  DueIsRun
