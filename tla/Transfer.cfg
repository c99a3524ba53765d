\* Two orders of any kind.
CONSTANTS
  acc1 = acc1
  acc2 = acc2
  coordinator = coordinator
  None = None
  Accounts = {acc1, acc2}
  MaxOrders = 2
  Coordinator = coordinator
  Requests <- MCRequests
  Opening <- MCOpening
  MAX_RETRY_ATTEMPTS = 3
  Refusing = {acc2}
  Stoppable = {acc2}
SPECIFICATION FairSpec
INVARIANTS TypeOK OneCarrier
PROPERTIES ImplementsLedger TransfersEnd
CHECK_DEADLOCK FALSE
