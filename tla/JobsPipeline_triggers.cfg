CONSTANTS
  NumJobs = 2
  ChatbotJobs = {1}
  BootRuns = {boot}
  CronRuns = {cron}
  DevRequests = {d1}
SPECIFICATION FairSpec
INVARIANTS
  TypeOK
  OrderedWithinTrigger
  OutcomeIsOfThread
PROPERTY TriggersEnd
CHECK_DEADLOCK FALSE
