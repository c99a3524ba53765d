\* The documented effect of the Escalate directive.
CONSTANTS
  MaxWorkers = 1
  Supervisor = supervisor
  MaxWork = 1
  MaxReports = 1
  Directives = {"Escalate"}
  Scopes = {"One"}
  StopsSupervisor = FALSE
SPECIFICATION FairSpec
PROPERTY FailedActorsReturn
CHECK_DEADLOCK FALSE
