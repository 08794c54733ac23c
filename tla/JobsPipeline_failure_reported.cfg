CONSTANTS
  NumJobs = 2
  ChatbotJobs = {2}
  BootRuns = {boot}
  CronRuns = {cron}
  DevRequests = {d1}
SPECIFICATION Spec
INVARIANT FailureIsReported
CHECK_DEADLOCK FALSE
