SPECIFICATION FairSpec
CONSTANTS
 Scheduler = s
 Handlers = {h}
 Root = "main"
 Paths <- MCPaths
 Script <- MCScript
 Branches <- MCBranches
 MaxFaults = 1
INVARIANTS TypeOK JoinsOnce JoinedThreadsAreDone EffectsOnce StuckIsExplained OrphansAreExplained
PROPERTY EnrollmentEnds
CHECK_DEADLOCK FALSE
