SPECIFICATION PickerSpec
CONSTANTS
    N = 2
    Down = {2}
    Homeless = {2}
    Hanging = {1}
    Paths = {0, 1, 2}
    Root = 0
    Below <- MCBelow
    ScanDepth = 2
INVARIANTS PickerTypeOK ListIsComplete
PROPERTY PickerAnswersUnlessHung
