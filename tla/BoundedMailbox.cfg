\* The bounded mailbox: the same, for each policy and capacity.
CONSTANTS
  MaxSends = 4
  Capacities = {1, 2, 3}
  Policies = {"DropOldest", "DropNewest", "Reject"}
SPECIFICATION Spec
INVARIANTS TypeOK DeadLettersTold HasRoom
PROPERTIES AcceptedIsKept ImplementsDelivery
