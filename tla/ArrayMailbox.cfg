\* The unbounded mailbox: safety, the messaging contract and liveness.
CONSTANT MaxSends = 5
SPECIFICATION ArrayLiveSpec
INVARIANTS MailboxTypeOK PromiseAccounting StartedBeforeQueued NoLostWakeup
PROPERTIES ImplementsDelivery EverySendAnswered
