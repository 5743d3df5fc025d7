SPECIFICATION Spec
CONSTANTS
    Sessions = {s1, s2}
    Hosts = {h1}
    MayEnd = TRUE
    Entries = 2
    MaxQuery = 1
    None = None
CHECK_DEADLOCK FALSE
INVARIANTS TypeOK ModeHasOverlay
PROPERTY ActsOnWhatWasAsked
