SPECIFICATION MCSpec
CONSTANTS
    Asked <- MCAsked
    Default <- MCDefault
    Width = 3
    Cap = 1
    MaxAsks = 2
    MaxKeys = 1
    MaxStreams = 2
CHECK_DEADLOCK FALSE
INVARIANTS TypeOK NoPanic SizeIsCurrent TerminalRestored
PROPERTIES ConnectionIsCleared ServeReturns
