\* Every directive and scope, and a supervisor that throws and may be stopped.
CONSTANTS
  MaxWorkers = 2
  Supervisor = supervisor
  MaxWork = 2
  MaxReports = 2
  Directives = {"Restart", "Resume", "Stop", "Escalate"}
  Scopes = {"One", "All"}
  StopsSupervisor = TRUE
SPECIFICATION FairSpec
INVARIANTS TypeOK NoFailureForgotten AnsweredOnce
PROPERTIES ReturnsUnlessLost InformsHandled
CHECK_DEADLOCK FALSE
