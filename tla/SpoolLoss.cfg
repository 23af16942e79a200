CONSTANTS
    MaxIndex = 3
    MaxSize = 2
    Chunks = 1
    MaxRec = 5
SPECIFICATION Spec
INVARIANT NothingLeftBehind
