SPECIFICATION Spec
CONSTANTS
 Jobs = {1}
 Chunks = {1}
 Owner <- MCOwner
 MinMisses = 3
 PollLimit = 3
 MaxFaults = 1
PROPERTIES RetryIsDispatched
