SPECIFICATION Spec
CONSTANTS
    Subs = {c1, c2}
    SubBuffer = 2
    Lines = 1
    MaxChunk = 3
INVARIANTS TypeOK NoPanic NoGapAfterReplay
PROPERTIES ImplementsContract EveryViewerIsTold
