SPECIFICATION Spec
CONSTANTS
 Rows = {1, 2, 3}
 Slots = {1}
 Urgent = {3}
 Short = {1, 3}
 SlotOf <- MCSlotOf
 Tier <- MCTier
 Priority <- MCPriority
 Ttl <- MCTtl
 Campaign = {1, 2}
 Automated = {1, 2}
 Retries = {3}
 Reserving = {3}
 FuturePlan = TRUE
 BatchSize = 2
 Poll = 1
 Recheck = 1
 Collision = 2
 MaxTime = 2
 MaxFaults = 1
INVARIANTS TypeOK OneReservation HandedOnce
PROPERTIES DispatchIsMostUrgent SubmissionIsMostUrgent HeldForAnother PerishablesEnd
CHECK_DEADLOCK FALSE
